---- MODULE Spec2Model ----
(***************************************************************************)
(* A model of the select-based event loop of events.py: the EventLoop      *)
(* reactor thread, the LoopContext handed to each consumer, and the        *)
(* threads that call singleton(), notify_me(), shut_me_down() and close(). *)
(*                                                                         *)
(* The reactor is modelled statement by statement wherever another thread  *)
(* can observe the difference (the queues, the singleton registry, the     *)
(* context table and the evicted flags).  A block run under `with cond` by *)
(* a caller thread is one step, taken only while the reactor does not hold *)
(* the lock.  Consumer callbacks are external code: each is one step whose *)
(* outcome (return or raise, what it registers or unregisters) is chosen   *)
(* nondeterministically.                                                   *)
(*                                                                         *)
(* Spec is the loop as the repository drives it.  SpecProto adds a line    *)
(* on the control channel that is neither quit nor wake, SpecReload the    *)
(* reload of events.py.                                                    *)
(*                                                                         *)
(* The library classes are pure data and are exercised on their own, the   *)
(* loop standing still: SpecDoc applies a ContentChange to a Document,     *)
(* SpecPod builds, copies and assigns POD objects on a heap, SpecSpeak     *)
(* adds symbols to a Speakifier and reads its talon list.  Strings are     *)
(* sequences of one-character strings.                                     *)
(***************************************************************************)
EXTENDS Integers, Sequences, FiniteSets, TLC

\* ------------------------------------------------------------------ bounds
NumThreads   == 2   \* threads calling into the loop from outside
MaxConsumers == 2   \* consumer objects the factories create
NumNames     == 2   \* distinct singleton names
NumFds       == 1   \* descriptors consumers may register
MaxOps       == 4   \* calls made by the outside threads, in total
MaxEvents    == 1   \* readiness events delivered on consumer descriptors
MaxBatch     == 2   \* keys one selector.select() call returns
ProtoOps     == 3   \* calls in total when unknown control lines are sent
ReloadOps    == 3   \* calls in total when events.py is reloaded
LiveOps      == 3   \* calls in total when the threads are scheduled fairly
DrainOps     == 3   \* calls and callback requests in total
MaxYields    == 2   \* yield statements of a generator function
NumGenNames  == 2   \* names declared with singletons.singleton
MaxDecls     == 3   \* singleton(fn) calls in total
MaxConns     == 3   \* connections the pool accepts
MaxStops     == 2   \* shut_me_down() calls made on the pool
MaxRecv      == 72  \* bytes one recv() returns, at most
MaxText      == 3   \* characters of a document's initial text
MaxNew       == 2   \* characters of the text a ContentChange carries
MaxLine      == 2   \* largest line number of a Position
MaxChar      == 2   \* largest character number of a Position
MaxChanges   == 1   \* did_change calls made on one document
MaxPodOps    == 3   \* constructor calls and assignments on POD objects
MaxSym       == 2   \* characters of a symbol given to a Speakifier
MaxPrefix    == 1   \* characters of a Speakifier's prefix
MaxSpeakOps  == 3   \* add_symbol and get_talon_list calls on a Speakifier

Threads   == 1..NumThreads
Consumers == 1..MaxConsumers
Names     == 1..NumNames
Fds       == 1..NumFds
\* The two ends of the control socketpair, as selector keys.
CTRL_R    == 0
CTRL_W    == -1

\* --------------------------------------------------------------- variables
VARIABLES
    \* EventLoop fields
    selector,     \* file objects registered with self.selector
    consumers,    \* self.consumers: fileobj -> consumer
    singletons,   \* self.singletons: name -> consumer
    contexts,     \* self.contexts: its keys, in insertion order
    evicted,      \* LoopContext.evicted of every context created so far
    startables,   \* self.startables
    stoppables,   \* self.stoppables
    notifiables,  \* self.notifiables: <<consumer, msg>> entries
    closed,       \* self.closed
    ctrlBuf,      \* command lines written to ctrl_w and not yet read
    lock,         \* holder of self.cond: "free" or "reactor"
    \* the reactor thread
    rpc,          \* position of the reactor thread
    rbatch,       \* keys of the current select() result still to dispatch
    rlines,       \* run_one: lines of msg after the one being handled
    rcons,        \* the consumer being handled
    rret,         \* where evict_consumer returns to
    rnames,       \* evict_consumer: names found to map to the consumer
    rclose,       \* _close: the list(self.contexts) it iterates over
    rindex,       \* _close: how many consumers of that list are done
    rerr,         \* the shutdown() before this evict_consumer raised
    loopExc,      \* exception that ended the run loop, <<type, site>>
    closeExc,     \* exception raised by the teardown in the finally block
    \* the calling threads: for each, pc (its position), op (the call it
    \* makes or made last), cons and name (the consumer and the singleton
    \* name the call is about), res (the outcome of its latest call) and
    \* late (that call began after a close() had returned)
    th,
    \* environment and history
    nextId,       \* next consumer object a factory returns
    madeFor,      \* the singleton name each consumer object was made for
    nextMsg,      \* messages queued so far, plus one
    opsLeft,      \* calls the outside threads may still make
    eventsLeft,   \* readiness events still to deliver
    closeDone,    \* some close() call has returned
    log           \* callbacks invoked so far, each <<callback, consumer,
                  \* msg, outcome>> with outcome "ok", "raise" or, when a
                  \* LoopContext call of the callback raised, "KeyError" (the
                  \* exception of a shutdown() is swallowed where it is
                  \* called: its entry says "ok" and rerr holds it)
VARIABLES
    \* langserv/docstate.py: one Document and the history of its last call
    docText,      \* Document.text, a sequence of characters
    docOld,       \* the text before the latest did_change call
    docChange,    \* the ContentChange of the latest did_change call
    docRes,       \* its outcome: "none" (no call yet), "ok" or "ValueError"
    changesLeft   \* did_change calls still to make
VARIABLES
    \* langserv/docstate.py and langserv/pod.py: POD objects
    podFields,    \* the class and the field values the objects are built from
    podHeap,      \* the objects made so far, each [cls, attrs], by address
    podRoots,     \* the objects the caller holds, each [addr, how, src]: how
                  \* it was built ("kw", "dict" or "copy") and, for a copy,
                  \* the address of the object copied
    podLast,      \* the latest call: [op, obj, attr, value, exc]
    podAssigned,  \* some attribute has been assigned since construction
    podOpsLeft    \* calls still to make
VARIABLES
    \* speakify.py: one Speakifier
    spkPrefix,    \* self.prefix
    pronounce,    \* self.pronounce: speakable -> symbol -> <<kind, src>>
    spkGen,       \* every <<speakable, symbol, kind>> generated so far
    spkOut,       \* what the latest get_talon_list call returned
    spkListed,    \* get_talon_list was the latest call
    spkOpsLeft    \* calls still to make

VARIABLES
    \* singletons.py: the module's registry and the generators made so far
    modSingletons, \* _singletons: name -> index of the generator stored
    gens,          \* the generators made, each [name, yields, raises, status,
                   \* resumed]: the function's behaviour (how many yields it
                   \* has, where it raises) and where the generator stands
    gpc,           \* where the singleton(fn) call in progress stands
    gname,         \* its name
    gfn,           \* its fn, as [yields, raises]
    gerr,          \* what the latest call logged or raised
    genOpsLeft     \* singleton(fn) calls still to make

VARIABLES
    \* langserv/util.py: one Parser and the bytes a connection delivers
    parser,        \* the Parser: [buf, header_length, full_length, headers],
                   \* with calls, the callback's invocations so far, each
                   \* <<full, body, headers>>, and exc, what feed() raised
    pstream,       \* the bytes the peer sends on the connection
    pkind,         \* what they are: "messages" or "headless"
    pfed           \* how many of them have been passed to feed()

VARIABLES
    \* langserv/langserv.py: one LangServPool and what it holds in the loop
    pool,          \* [sel, tab, lang_servs, closes, exc]: its file objects in
                   \* loop.selector and in loop.consumers, its dict of
                   \* connections (conn -> LangServ.closed), how often each
                   \* socket's close() was called, and the exception of the
                   \* callback that ran last
    pctx,          \* its LoopContext: "none", "live" or "evicted"
    ppc,           \* where the reactor stands with it
    pshut,         \* how often its shutdown() has run
    pevict,        \* how its eviction ended
    stopsLeft      \* entries of it still to come through the to-stop queue

loopVars    == <<selector, consumers, singletons, contexts, evicted,
                 startables, stoppables, notifiables, closed, ctrlBuf, lock>>
reactorVars == <<rpc, rbatch, rlines, rcons, rret, rnames, rclose, rindex, rerr,
                 loopExc, closeExc>>
envVars     == <<nextId, madeFor, nextMsg, opsLeft, eventsLeft, closeDone, log>>
docVars     == <<docText, docOld, docChange, docRes, changesLeft>>
podVars     == <<podFields, podHeap, podRoots, podLast, podAssigned,
                 podOpsLeft>>
spkVars     == <<spkPrefix, pronounce, spkGen, spkOut, spkListed, spkOpsLeft>>
genVars     == <<modSingletons, gens, gpc, gname, gfn, gerr, genOpsLeft>>
parVars     == <<parser, pstream, pkind, pfed>>
poolVars    == <<pool, pctx, ppc, pshut, pevict, stopsLeft>>
libVars     == <<docVars, podVars, spkVars, genVars, parVars, poolVars>>
vars        == <<loopVars, reactorVars, th, envVars, libVars>>

\* ----------------------------------------------------------------- helpers
Put(f, k, v) == [x \in DOMAIN f \cup {k} |-> IF x = k THEN v ELSE f[x]]

Drop(f, k) == [x \in DOMAIN f \ {k} |-> f[x]]

Range(s) == {s[i] : i \in DOMAIN s}

Last(s) == s[Len(s)]

\* A pop() that returns the last entry and leaves it in the list.
pop_keep(s) == s

Front(s) == SubSeq(s, 1, Len(s) - 1)

NoExc == <<"none", "none">>

\* list.remove(x): drops the first occurrence; the caller swallows the
\* ValueError of a missing x.
RECURSIVE list_remove(_, _)
list_remove(s, x) ==
    IF s = <<>> THEN <<>>
    ELSE IF Head(s) = x THEN Tail(s)
    ELSE <<Head(s)>> \o list_remove(Tail(s), x)

\* The reverse scan of evict_consumer over self.notifiables: pops every
\* entry of the consumer.
purge_notifiables(s, old) == SelectSeq(s, LAMBDA e : e[1] # old)

\* File objects the descriptor table maps to a consumer.
FdsOf(c) == {fd \in DOMAIN consumers : consumers[fd] = c}

\* ctrl_w.send(line)
ctrl_send(line) == Append(ctrlBuf, line)

\* -------------------------------------------------------------------- Init
\* EventLoop.__init__ followed by start(): the selector holds ctrl_r only,
\* every table and queue is empty, the reactor is about to call select();
\* the outside threads will make up to ops calls.
Started(ops) ==
    /\ selector = {CTRL_R}
    /\ consumers = <<>>
    /\ singletons = <<>>
    /\ contexts = <<>>
    /\ evicted = <<>>
    /\ startables = <<>>
    /\ stoppables = <<>>
    /\ notifiables = <<>>
    /\ closed = FALSE
    /\ ctrlBuf = <<>>
    /\ lock = "free"
    /\ rpc = "select"
    /\ rbatch = <<>>
    /\ rlines = <<>>
    /\ rcons = 0
    /\ rret = "none"
    /\ rnames = {}
    /\ rclose = <<>>
    /\ rindex = 0
    /\ rerr = FALSE
    /\ loopExc = NoExc
    /\ closeExc = NoExc
    /\ th = [t \in Threads |-> [pc |-> "idle", op |-> "none", cons |-> 0,
                                name |-> 0, res |-> "none", late |-> FALSE]]
    /\ nextId = 1
    /\ madeFor = <<>>
    /\ nextMsg = 1
    /\ opsLeft = ops
    /\ eventsLeft = MaxEvents
    /\ closeDone = FALSE
    /\ log = <<>>

\* A ContentChange built from text alone.  An Optional field is a sequence
\* of at most one value, None being the empty one.
NoChange == [text |-> <<>>, range |-> <<>>, rangeLength |-> <<>>]

\* No document is open.
DocIdle ==
    /\ docText = <<>>
    /\ docOld = <<>>
    /\ docChange = NoChange
    /\ docRes = "none"
    /\ changesLeft = 0

\* Python values: a str, None, a dict (keys to values) or a reference to
\* an object, each a pair of its type and its content.
Str(x) == <<"str", x>>

None == <<"None", "">>

Dict(d) == <<"dict", d>>

Ref(addr) == <<"ref", addr>>

\* No call has been made on POD objects.
NoCall == [op |-> "none", obj |-> 0, attr |-> "", value |-> None,
           exc |-> "none"]

\* No POD object exists.
PodIdle ==
    /\ podFields = [cls |-> "POD", fields |-> <<>>]
    /\ podHeap = <<>>
    /\ podRoots = <<>>
    /\ podLast = NoCall
    /\ podAssigned = FALSE
    /\ podOpsLeft = 0

\* No Speakifier exists.
SpeakIdle ==
    /\ spkPrefix = <<>>
    /\ pronounce = <<>>
    /\ spkGen = {}
    /\ spkOut = <<>>
    /\ spkListed = FALSE
    /\ spkOpsLeft = 0

NoFn == [yields |-> 0, raises |-> "none"]

GenIdle ==
    /\ modSingletons = <<>>
    /\ gens = <<>>
    /\ gpc = "idle"
    /\ gname = 0
    /\ gfn = NoFn
    /\ gerr = "none"
    /\ genOpsLeft = 0

\* None, for header_length and full_length.
NoLength == -1

\* Parser.__init__: reset(b''), with no callback invoked yet.
NewParser ==
    [buf |-> <<>>, header_length |-> NoLength, full_length |-> NoLength,
     headers |-> <<>>, calls |-> <<>>, exc |-> "none"]

ParserIdle ==
    /\ parser = NewParser
    /\ pstream = <<>>
    /\ pkind = "none"
    /\ pfed = 0

\* LangServPool.__init__: a listening socket, no connection, no context.
LISTENER == 0

NewPool ==
    [sel |-> {}, tab |-> {}, lang_servs |-> <<>>,
     closes |-> [fd \in {LISTENER} |-> 0], exc |-> "none"]

PoolIdle ==
    /\ pool = NewPool
    /\ pctx = "none"
    /\ ppc = "new"
    /\ pshut = 0
    /\ pevict = "none"
    /\ stopsLeft = 0

\* The library classes are not in use while the loop is exercised.
LibIdle == DocIdle /\ PodIdle /\ SpeakIdle /\ GenIdle /\ ParserIdle /\ PoolIdle

Init == Started(MaxOps) /\ LibIdle

\* ------------------------------------------------------- the calling threads
\* A thread returns from its call with an outcome; its locals are gone.
Return(t, res) ==
    [th EXCEPT ![t] = [pc |-> "idle", op |-> @.op, cons |-> 0, name |-> 0,
                       res |-> res, late |-> @.late]]

\* A thread moves on inside its call.
Goto(t, pc) == [th EXCEPT ![t].pc = pc]

\* A thread begins a call on consumer c or name n: one more call is made,
\* and the thread remembers whether a close() had already returned.
\* Threads are interchangeable, so a call is given to the lowest idle one.
CanBegin(t) ==
    /\ th[t].pc = "idle"
    /\ \A u \in Threads : u < t => th[u].pc # "idle"
    /\ opsLeft > 0

Begin(t, op, pc, c, n) ==
    [th EXCEPT ![t] = [pc |-> pc, op |-> op, cons |-> c, name |-> n,
                       res |-> "none", late |-> closeDone]]

\* A call that returns in the step that begins it.
BeginReturn(t, op, res) ==
    [th EXCEPT ![t] = [pc |-> "idle", op |-> op, cons |-> 0, name |-> 0,
                       res |-> res, late |-> closeDone]]

\* Where a thread goes when ctx.shut_me_down() returns: singleton() goes on
\* to build the new object, a direct call is over.
AfterShutMeDown(t, res) ==
    IF th[t].op = "singleton" THEN Goto(t, "sg_add") ELSE Return(t, res)

\* LoopContext.notify_me, `if self.evicted: return`, read without the lock.
notify_me_check(t, c) ==
    /\ CanBegin(t)
    /\ c \in DOMAIN evicted
    /\ opsLeft' = opsLeft - 1
    /\ th' = IF evicted[c]
             THEN BeginReturn(t, "notify_me", "noop")
             ELSE Begin(t, "notify_me", "nm_lock", c, 0)
    /\ UNCHANGED <<loopVars, reactorVars>>
    /\ UNCHANGED <<nextId, madeFor, nextMsg, eventsLeft, closeDone, log>>
    /\ UNCHANGED libVars

\* A notify_me that hands the message to consumer.notify() on the calling
\* thread instead of queueing it for the reactor.
notify_me_direct(t) ==
    /\ th[t].pc = "nm_lock"
    /\ lock = "free"
    /\ log' = Append(log, <<"notify", th[t].cons, nextMsg, "ok">>)
    /\ nextMsg' = nextMsg + 1
    /\ th' = Return(t, "queued")
    /\ UNCHANGED <<loopVars, reactorVars>>
    /\ UNCHANGED <<nextId, madeFor, opsLeft, eventsLeft, closeDone>>
    /\ UNCHANGED libVars

\* LoopContext.notify_me, the block under `with self.loop.cond`.  The
\* message is a fresh payload, named by the order in which it is queued.
notify_me_locked(t) ==
    /\ th[t].pc = "nm_lock"
    /\ lock = "free"
    /\ IF closed
       THEN /\ th' = Return(t, "dropped")
            /\ UNCHANGED <<notifiables, ctrlBuf, nextMsg>>
       ELSE /\ notifiables' = Append(notifiables, <<th[t].cons, nextMsg>>)
            /\ ctrlBuf' = ctrl_send("wake")
            /\ nextMsg' = nextMsg + 1
            /\ th' = Return(t, "queued")
    /\ UNCHANGED <<selector, consumers, singletons, contexts, evicted,
                   startables, stoppables, closed, lock>>
    /\ UNCHANGED <<reactorVars, nextId, madeFor, opsLeft, eventsLeft,
                   closeDone, log>>
    /\ UNCHANGED libVars

\* LoopContext.shut_me_down called directly, `if self.evicted: return`.
shut_me_down_check(t, c) ==
    /\ CanBegin(t)
    /\ c \in DOMAIN evicted
    /\ opsLeft' = opsLeft - 1
    /\ th' = IF evicted[c]
             THEN BeginReturn(t, "shut_me_down", "noop")
             ELSE Begin(t, "shut_me_down", "sd_lock", c, 0)
    /\ UNCHANGED <<loopVars, reactorVars>>
    /\ UNCHANGED <<nextId, madeFor, nextMsg, eventsLeft, closeDone, log>>
    /\ UNCHANGED libVars

\* LoopContext.shut_me_down, the block under `with self.loop.cond`.
shut_me_down_locked(t) ==
    /\ th[t].pc = "sd_lock"
    /\ lock = "free"
    /\ IF closed
       THEN /\ th' = AfterShutMeDown(t, "dropped")
            /\ UNCHANGED <<stoppables, ctrlBuf>>
       ELSE /\ stoppables' = Append(stoppables, th[t].cons)
            /\ ctrlBuf' = ctrl_send("wake")
            /\ th' = AfterShutMeDown(t, "queued")
    /\ UNCHANGED <<selector, consumers, singletons, contexts, evicted,
                   startables, notifiables, closed, lock>>
    /\ UNCHANGED <<reactorVars, envVars>>
    /\ UNCHANGED libVars

\* Objects the singleton() calls now under way will still take from the
\* factories.
Pending == Cardinality({u \in Threads : th[u].op = "singleton"
                                        /\ th[u].pc # "idle"})

\* Names singleton() has been called with so far.
UsedNames == Range(madeFor) \cup {th[u].name : u \in {v \in Threads :
                                     th[v].op = "singleton"
                                     /\ th[v].pc # "idle"}}

\* EventLoop.singleton, `if name in self.singletons`, read without the lock.
\* Names are interchangeable, so a new name is the lowest unused one.
singleton_check(t, name) ==
    /\ CanBegin(t)
    /\ nextId + Pending <= MaxConsumers
    /\ \A m \in Names : m < name => m \in UsedNames
    /\ opsLeft' = opsLeft - 1
    /\ th' = Begin(t, "singleton",
                   IF name \in DOMAIN singletons THEN "sg_pop" ELSE "sg_add",
                   0, name)
    /\ UNCHANGED <<loopVars, reactorVars>>
    /\ UNCHANGED <<nextId, madeFor, nextMsg, eventsLeft, closeDone, log>>
    /\ UNCHANGED libVars

\* `old = self.singletons.pop(name)`: KeyError when the name has gone since
\* the test.
singleton_pop(t) ==
    /\ th[t].pc = "sg_pop"
    /\ IF th[t].name \in DOMAIN singletons
       THEN /\ th' = [th EXCEPT ![t].pc = "sg_ctx",
                                ![t].cons = singletons[th[t].name]]
            /\ singletons' = Drop(singletons, th[t].name)
       ELSE /\ th' = Return(t, "KeyError")
            /\ UNCHANGED singletons
    /\ UNCHANGED <<selector, consumers, contexts, evicted, startables,
                   stoppables, notifiables, closed, ctrlBuf, lock>>
    /\ UNCHANGED <<reactorVars, envVars>>
    /\ UNCHANGED libVars

\* `ctx = self.contexts[old]`: KeyError when old has no context.
singleton_ctx(t) ==
    /\ th[t].pc = "sg_ctx"
    /\ th' = IF th[t].cons \notin Range(contexts)
             THEN Return(t, "KeyError")
             ELSE Goto(t, "sg_shut")
    /\ UNCHANGED <<loopVars, reactorVars, envVars>>
    /\ UNCHANGED libVars

\* `ctx.shut_me_down()` called by singleton(): `if self.evicted: return`.
singleton_shut_me_down(t) ==
    /\ th[t].pc = "sg_shut"
    /\ th' = Goto(t, IF evicted[th[t].cons] THEN "sg_add" ELSE "sd_lock")
    /\ UNCHANGED <<loopVars, reactorVars, envVars>>
    /\ UNCHANGED libVars

\* `obj = fn()` and the block under `with self.cond` that queues it.
singleton_add(t) ==
    /\ th[t].pc = "sg_add"
    /\ lock = "free"
    /\ nextId' = nextId + 1
    /\ madeFor' = Put(madeFor, nextId, th[t].name)
    /\ IF ~closed
       THEN /\ startables' = Append(startables, nextId)
            /\ singletons' = Put(singletons, th[t].name, nextId)
            /\ ctrlBuf' = ctrl_send("wake")
            /\ th' = Return(t, "queued")
       ELSE /\ th' = Return(t, "dropped")
            /\ UNCHANGED <<startables, singletons, ctrlBuf>>
    /\ UNCHANGED <<selector, consumers, contexts, evicted, stoppables,
                   notifiables, closed, lock>>
    /\ UNCHANGED <<reactorVars, nextMsg, opsLeft, eventsLeft, closeDone, log>>
    /\ UNCHANGED libVars

\* EventLoop.close, the block under `with self.cond`.
close_send(t) ==
    /\ CanBegin(t)
    /\ lock = "free"
    /\ opsLeft' = opsLeft - 1
    /\ IF closed
       THEN /\ th' = BeginReturn(t, "close", "noop")
            /\ UNCHANGED ctrlBuf
       ELSE /\ ctrlBuf' = ctrl_send("quit")
            /\ th' = Begin(t, "close", "join", 0, 0)
    /\ UNCHANGED <<selector, consumers, singletons, contexts, evicted,
                   startables, stoppables, notifiables, closed, lock>>
    /\ UNCHANGED <<reactorVars, nextId, madeFor, nextMsg, eventsLeft,
                   closeDone, log>>
    /\ UNCHANGED libVars

\* `self.join()`: returns once the reactor thread has ended.
close_join(t) ==
    /\ th[t].pc = "join"
    /\ rpc = "dead"
    /\ th' = Return(t, "joined")
    /\ closeDone' = TRUE
    /\ UNCHANGED <<loopVars, reactorVars>>
    /\ UNCHANGED <<nextId, madeFor, nextMsg, opsLeft, eventsLeft, log>>
    /\ UNCHANGED libVars

\* events.py is reloaded and event_loop declared again, while the loop is
\* the one the module holds: singletons.singleton finds the name, pops the
\* old generator and resumes it with next(old), which runs the finally
\* clause of event_loop, x.close().  This is the block of close() under
\* `with self.cond`.
reload_close(t) ==
    /\ CanBegin(t)
    /\ ~closeDone
    /\ \A u \in Threads : th[u].op = "reload" => th[u].pc = "idle"
    /\ lock = "free"
    /\ opsLeft' = opsLeft - 1
    /\ IF closed
       THEN /\ th' = Begin(t, "reload", "rl_new", 0, 0)
            /\ UNCHANGED ctrlBuf
       ELSE /\ ctrlBuf' = ctrl_send("quit")
            /\ th' = Begin(t, "reload", "rl_join", 0, 0)
    /\ UNCHANGED <<selector, consumers, singletons, contexts, evicted,
                   startables, stoppables, notifiables, closed, lock>>
    /\ UNCHANGED <<reactorVars, nextId, madeFor, nextMsg, eventsLeft,
                   closeDone, log>>
    /\ UNCHANGED libVars

\* The join() of that close(): it returns once the reactor thread has
\* ended, the generator is exhausted and next(old) raises StopIteration.
reload_join(t) ==
    /\ th[t].pc = "rl_join"
    /\ rpc = "dead"
    /\ th' = Goto(t, "rl_new")
    /\ closeDone' = TRUE
    /\ UNCHANGED <<loopVars, reactorVars>>
    /\ UNCHANGED <<nextId, madeFor, nextMsg, opsLeft, eventsLeft, log>>
    /\ UNCHANGED libVars

\* `it = iter(fn()); obj = next(it)`: the new generator runs
\* `x = EventLoop(); x.start()` and yields the new loop, another object
\* than the one this state describes.
reload_new(t) ==
    /\ th[t].pc = "rl_new"
    /\ th' = Return(t, "reloaded")
    /\ UNCHANGED <<loopVars, reactorVars, envVars>>
    /\ UNCHANGED libVars

\* A line that is neither quit nor wake reaches ctrl_r: some code holding
\* the loop object writes it to ctrl_w, or recv(4096) cuts a line of a long
\* backlog in two.
ctrl_other(t) ==
    /\ CanBegin(t)
    /\ opsLeft' = opsLeft - 1
    /\ ctrlBuf' = ctrl_send("other")
    /\ th' = BeginReturn(t, "send", "sent")
    /\ UNCHANGED <<selector, consumers, singletons, contexts, evicted,
                   startables, stoppables, notifiables, closed, lock>>
    /\ UNCHANGED <<reactorVars, nextId, madeFor, nextMsg, eventsLeft,
                   closeDone, log>>
    /\ UNCHANGED libVars

\* ------------------------------------------------------- consumer callbacks
\* Callbacks are external code.  What the model fixes is what they can do
\* through their LoopContext, whose methods do nothing once it is evicted.

\* A register without the `if self.evicted: return` of LoopContext.register.
register_unchecked(c, fds) ==
    /\ selector' = selector \cup fds
    /\ consumers' = [fd \in DOMAIN consumers \cup fds |->
                        IF fd \in fds THEN c ELSE consumers[fd]]

\* LoopContext.register of each file object of fds.
register(c, fds) ==
    IF evicted[c]
    THEN /\ UNCHANGED <<selector, consumers>>
    ELSE /\ selector' = selector \cup fds
         /\ consumers' = [fd \in DOMAIN consumers \cup fds |->
                             IF fd \in fds THEN c ELSE consumers[fd]]

\* LoopContext.unregister of each file object of fds.
unregister(c, fds) ==
    IF evicted[c]
    THEN /\ UNCHANGED <<selector, consumers>>
    ELSE /\ selector' = selector \ fds
         /\ consumers' = [fd \in DOMAIN consumers \ fds |-> consumers[fd]]

\* LoopContext.modify of each file object of fds: selector.modify changes
\* the event mask and the data of a key, neither of which is state here.
modify(c, fds) ==
    IF evicted[c]
    THEN /\ UNCHANGED <<selector, consumers>>
    ELSE /\ UNCHANGED <<selector, consumers>>

\* The LoopContext calls a callback may make on a file object.
CtxCalls == {"none", "register", "modify", "unregister"}

\* The call raises: past `if self.evicted: return`, selector.register
\* raises KeyError for a file object that is registered, selector.modify
\* and selector.unregister for one that is not.
ctx_raises(c, call, fd) ==
    /\ ~evicted[c]
    /\ \/ call = "register" /\ fd \in selector
       \/ call \in {"modify", "unregister"} /\ fd \notin selector

\* The effect of the call on the selector and the descriptor table.
ctx_call(c, call, fd) ==
    IF ctx_raises(c, call, fd) \/ call = "none"
    THEN UNCHANGED <<selector, consumers>>
    ELSE IF call = "register" THEN register(c, {fd})
    ELSE IF call = "modify" THEN modify(c, {fd})
    ELSE unregister(c, {fd})

\* consumer.shutdown() in its try block: it releases its descriptors (as
\* LangServPool.shutdown does) or leaves them registered, and returns or
\* raises; the except clause logs the exception and goes on.
shutdown(c, release, raises) ==
    /\ log' = Append(log, <<"shutdown", c, 0, "ok">>)
    /\ unregister(c, IF release THEN FdsOf(c) ELSE {})
    /\ rerr' = raises

\* The k lowest descriptors not yet in the selector.
FreeFds(k) == {fd \in Fds \ selector :
                 Cardinality({g \in Fds \ selector : g < fd}) < k}

\* ------------------------------------------------------- the reactor thread
\* An exception escapes run_one: the `with self.cond` block, if entered, is
\* left, and run() goes to its finally clause.
Crash(type, site) ==
    /\ loopExc' = <<type, site>>
    /\ lock' = "free"
    /\ rpc' = "finally"
    /\ rbatch' = <<>>
    /\ rlines' = <<>>
    /\ rcons' = 0
    /\ rret' = "none"
    /\ rnames' = {}

\* Keys a select() call can report: ctrl_r when it has unread bytes, any
\* registered consumer descriptor when its peer makes it ready.
ReadyKeys == (IF ctrlBuf # <<>> THEN {CTRL_R} ELSE {})
             \cup (IF eventsLeft > 0 THEN selector \ {CTRL_R} ELSE {})

Batches ==
    {b \in UNION {[1..n -> ReadyKeys] : n \in 1..MaxBatch} :
        /\ \A i, j \in DOMAIN b : i # j => b[i] # b[j]
        /\ Cardinality({i \in DOMAIN b : b[i] # CTRL_R}) <= eventsLeft}

\* run(): `self.selector.select()` returns a list of ready keys.
select(batch) ==
    /\ rpc = "select"
    /\ batch \in Batches
    /\ rbatch' = batch
    /\ eventsLeft' = eventsLeft
                       - Cardinality({i \in DOMAIN batch : batch[i] # CTRL_R})
    /\ rpc' = "run_one"
    /\ UNCHANGED <<loopVars, rlines, rcons, rret, rnames, rclose, rindex,
                   rerr, loopExc, closeExc>>
    /\ UNCHANGED <<th, nextId, madeFor, nextMsg, opsLeft, closeDone, log>>
    /\ UNCHANGED libVars

\* run(): the keys of one select() are used up, back to select().
run_next ==
    /\ rpc = "run_one"
    /\ rbatch = <<>>
    /\ rpc' = "select"
    /\ UNCHANGED <<loopVars, rbatch, rlines, rcons, rret, rnames, rclose,
                   rindex, rerr, loopExc, closeExc, th, envVars>>
    /\ UNCHANGED libVars

\* run_one on ctrl_r: recv() takes all that is buffered, and the loop over
\* its lines begins with the first line: quit ends the loop (it unpacks
\* each key of self.contexts into two names, a TypeError when there is a
\* key), wake goes on to take the lock with the other lines still to
\* iterate over, anything else is a ValueError.
run_one_ctrl ==
    /\ rpc = "run_one"
    /\ rbatch # <<>>
    /\ Head(rbatch) = CTRL_R
    /\ ctrlBuf' = <<>>
    /\ IF ctrlBuf = <<>>
       THEN Crash("BlockingIOError", "recv")
       ELSE IF Head(ctrlBuf) = "quit"
       THEN IF contexts # <<>>
            THEN Crash("TypeError", "quit")
            ELSE /\ loopExc' = <<"return", "quit">>
                 /\ rpc' = "finally"
                 /\ rbatch' = <<>>
                 /\ rlines' = <<>>
                 /\ UNCHANGED <<lock, rcons, rret, rnames>>
       ELSE IF Head(ctrlBuf) = "wake"
       THEN /\ rpc' = "wake"
            /\ rbatch' = Tail(rbatch)
            /\ rlines' = Tail(ctrlBuf)
            /\ UNCHANGED <<lock, rcons, rret, rnames, loopExc>>
       ELSE Crash("ValueError", "unknown control message")
    /\ UNCHANGED <<selector, consumers, singletons, contexts, evicted,
                   startables, stoppables, notifiables, closed>>
    /\ UNCHANGED <<rclose, rindex, rerr, closeExc, th, envVars>>
    /\ UNCHANGED libVars

\* run_one on a consumer descriptor: the lookup in self.consumers (KeyError
\* when the key is no longer there) and consumer.event(key, mask) under
\* evict_on_fail.  The callback may unregister the descriptor it was called
\* for, and returns or raises.
run_one_event(release, raises) ==
    /\ rpc = "run_one"
    /\ rbatch # <<>>
    /\ Head(rbatch) # CTRL_R
    /\ IF Head(rbatch) \notin DOMAIN consumers
       THEN /\ Crash("KeyError", "self.consumers[key.fileobj]")
            /\ UNCHANGED <<selector, consumers, log>>
       ELSE LET c == consumers[Head(rbatch)] IN
            /\ log' = Append(log, <<"event", c, 0,
                                     IF raises THEN "raise" ELSE "ok">>)
            /\ unregister(c, IF release THEN {Head(rbatch)} ELSE {})
            /\ rbatch' = Tail(rbatch)
            /\ rcons' = IF raises THEN c ELSE 0
            /\ rret' = IF raises THEN "run_one" ELSE "none"
            /\ rpc' = IF raises THEN "fail" ELSE "run_one"
            /\ UNCHANGED <<lock, rlines, rnames, loopExc>>
    /\ UNCHANGED <<singletons, contexts, evicted, startables, stoppables,
                   notifiables, closed, ctrlBuf>>
    /\ UNCHANGED <<rclose, rindex, rerr, closeExc, th>>
    /\ UNCHANGED <<nextId, madeFor, nextMsg, opsLeft, eventsLeft,
                   closeDone>>
    /\ UNCHANGED libVars

\* run_one, `if line == b"wake": with self.cond:`: the reactor takes the
\* lock.
wake_lock ==
    /\ rpc = "wake"
    /\ lock = "free"
    /\ lock' = "reactor"
    /\ rpc' = "stops"
    /\ UNCHANGED <<selector, consumers, singletons, contexts, evicted,
                   startables, stoppables, notifiables, closed, ctrlBuf>>
    /\ UNCHANGED <<rbatch, rlines, rcons, rret, rnames, rclose, rindex, rerr,
                   loopExc, closeExc>>
    /\ UNCHANGED <<th, envVars>>
    /\ UNCHANGED libVars

\* `while self.stoppables`: pop() takes the last entry, consumer.shutdown()
\* runs with its exception swallowed, then evict_consumer(consumer).
wake_stop(release, raises) ==
    /\ rpc = "stops"
    /\ stoppables # <<>>
    /\ stoppables' = Front(stoppables)
    /\ shutdown(Last(stoppables), release, raises)
    /\ rcons' = Last(stoppables)
    /\ rret' = "stops"
    /\ rpc' = "evict"
    /\ UNCHANGED <<singletons, contexts, evicted, startables, notifiables,
                   closed, ctrlBuf, lock>>
    /\ UNCHANGED <<rbatch, rlines, rnames, rclose, rindex, loopExc, closeExc,
                   th>>
    /\ UNCHANGED <<nextId, madeFor, nextMsg, opsLeft, eventsLeft,
                   closeDone>>
    /\ UNCHANGED libVars

\* The to-stop queue is empty: on to `while self.startables`.
wake_stops_done ==
    /\ rpc = "stops"
    /\ stoppables = <<>>
    /\ rpc' = "starts"
    /\ UNCHANGED <<loopVars, rbatch, rlines, rcons, rret, rnames, rclose,
                   rindex, rerr, loopExc, closeExc, th, envVars>>
    /\ UNCHANGED libVars

\* `while self.startables`: pop() takes the last entry, a LoopContext is
\* made and stored, consumer.startup(ctx) runs under evict_on_fail.  The
\* callback registers k descriptors and returns or raises.
wake_start(k, raises) ==
    /\ rpc = "starts"
    /\ startables # <<>>
    /\ LET c == Last(startables) IN
        /\ startables' = Front(startables)
        /\ contexts' = IF c \in Range(contexts) THEN contexts
                        ELSE Append(contexts, c)
        /\ evicted' = Put(evicted, c, FALSE)
        /\ log' = Append(log, <<"startup", c, 0,
                                 IF raises THEN "raise" ELSE "ok">>)
        /\ selector' = selector \cup FreeFds(k)
        /\ consumers' = [fd \in DOMAIN consumers \cup FreeFds(k) |->
                            IF fd \in FreeFds(k) THEN c ELSE consumers[fd]]
        /\ rcons' = IF raises THEN c ELSE 0
        /\ rret' = IF raises THEN "starts" ELSE "none"
        /\ rpc' = IF raises THEN "fail" ELSE "starts"
    /\ UNCHANGED <<singletons, stoppables, notifiables, closed, ctrlBuf, lock>>
    /\ UNCHANGED <<rbatch, rlines, rnames, rclose, rindex, rerr, loopExc,
                   closeExc, th>>
    /\ UNCHANGED <<nextId, madeFor, nextMsg, opsLeft, eventsLeft,
                   closeDone>>
    /\ UNCHANGED libVars

\* The to-start queue is empty: on to `while self.notifiables`.
wake_starts_done ==
    /\ rpc = "starts"
    /\ startables = <<>>
    /\ rpc' = "notifies"
    /\ UNCHANGED <<loopVars, rbatch, rlines, rcons, rret, rnames, rclose,
                   rindex, rerr, loopExc, closeExc, th, envVars>>
    /\ UNCHANGED libVars

\* `while self.notifiables`: pop() takes the last entry and
\* consumer.notify(msg) runs under evict_on_fail.  The callback makes a
\* LoopContext call on a file object or none, and returns or raises; the
\* KeyError of the call, if any, is what it raises.
wake_notify(call, fd, raises) ==
    /\ rpc = "notifies"
    /\ notifiables # <<>>
    /\ LET e == Last(notifiables)
           out == IF ctx_raises(e[1], call, fd) THEN "KeyError"
                  ELSE IF raises THEN "raise" ELSE "ok"
       IN
        /\ notifiables' = Front(notifiables)
        /\ log' = Append(log, <<"notify", e[1], e[2], out>>)
        /\ ctx_call(e[1], call, fd)
        /\ rcons' = IF out # "ok" THEN e[1] ELSE 0
        /\ rret' = IF out # "ok" THEN "notifies" ELSE "none"
        /\ rpc' = IF out # "ok" THEN "fail" ELSE "notifies"
    /\ UNCHANGED <<singletons, contexts, evicted,
                   startables, stoppables, closed, ctrlBuf, lock>>
    /\ UNCHANGED <<rbatch, rlines, rnames, rclose, rindex, rerr, loopExc,
                   closeExc, th>>
    /\ UNCHANGED <<nextId, madeFor, nextMsg, opsLeft, eventsLeft,
                   closeDone>>
    /\ UNCHANGED libVars

\* A drain whose last loop is left with entries still queued.
wake_done_early ==
    /\ rpc = "notifies"
    /\ lock' = "free"
    /\ rlines' = <<>>
    /\ rpc' = "run_one"
    /\ UNCHANGED <<selector, consumers, singletons, contexts, evicted,
                   startables, stoppables, notifiables, closed, ctrlBuf>>
    /\ UNCHANGED <<rbatch, rcons, rret, rnames, rclose, rindex, rerr, loopExc,
                   closeExc>>
    /\ UNCHANGED <<th, envVars>>
    /\ UNCHANGED libVars

\* The to-notify queue is empty: the lock is released and run_one returns
\* False from inside the loop over the lines, so that the lines after this
\* wake are dropped.
wake_done ==
    /\ rpc = "notifies"
    /\ notifiables = <<>>
    /\ lock' = "free"
    /\ rlines' = <<>>
    /\ rpc' = "run_one"
    /\ UNCHANGED <<selector, consumers, singletons, contexts, evicted,
                   startables, stoppables, notifiables, closed, ctrlBuf>>
    /\ UNCHANGED <<rbatch, rcons, rret, rnames, rclose, rindex, rerr, loopExc,
                   closeExc>>
    /\ UNCHANGED <<th, envVars>>
    /\ UNCHANGED libVars

\* evict_on_fail, the except clause: consumer.shutdown() with its exception
\* swallowed, then evict_consumer(consumer).
evict_on_fail(release, raises) ==
    /\ rpc = "fail"
    /\ shutdown(rcons, release, raises)
    /\ rpc' = "evict"
    /\ UNCHANGED <<singletons, contexts, evicted, startables, stoppables,
                   notifiables, closed, ctrlBuf, lock>>
    /\ UNCHANGED <<rbatch, rlines, rcons, rret, rnames, rclose, rindex,
                   loopExc, closeExc>>
    /\ UNCHANGED <<th, nextId, madeFor, nextMsg, opsLeft, eventsLeft,
                   closeDone>>
    /\ UNCHANGED libVars

\* An exception escapes evict_consumer.  Called under run_one (by
\* evict_on_fail or by the to-stop loop) it ends the run loop; called by
\* _close it escapes the finally clause of run(), which ends the thread
\* before `self.closed = True`.
EvictRaise(type) ==
    IF rret = "_close"
    THEN /\ closeExc' = <<type, "evict_consumer">>
         /\ rpc' = "dead"
         /\ rerr' = FALSE
         /\ rcons' = 0
         /\ rret' = "none"
         /\ rnames' = {}
         /\ UNCHANGED <<lock, rbatch, rlines, loopExc>>
    ELSE /\ Crash(type, IF rret = "stops" THEN "stoppables"
                                          ELSE "evict_on_fail")
         /\ rerr' = FALSE
         /\ UNCHANGED closeExc

\* evict_consumer, first part: `ctx = self.contexts.pop(old)` (KeyError when
\* old has no context), `ctx.evicted = True`, the loop over self.consumers
\* (it calls self.select.unregister, an attribute EventLoop does not have:
\* AttributeError at the first descriptor of old), and the snapshot
\* list(self.singletons.items()).
evict_consumer ==
    /\ rpc = "evict"
    /\ IF rcons \notin Range(contexts)
       THEN /\ EvictRaise("KeyError")
            /\ UNCHANGED <<contexts, evicted>>
       ELSE /\ contexts' = SelectSeq(contexts, LAMBDA c : c # rcons)
            /\ evicted' = [evicted EXCEPT ![rcons] = TRUE]
            /\ IF FdsOf(rcons) # {}
               THEN EvictRaise("AttributeError")
               ELSE /\ rnames' = {n \in DOMAIN singletons :
                                     singletons[n] = rcons}
                    /\ rpc' = "evict_queues"
                    /\ UNCHANGED <<lock, rbatch, rlines, rcons, rret, rerr,
                                   loopExc, closeExc>>
    /\ UNCHANGED <<selector, consumers, singletons, startables, stoppables,
                   notifiables, closed, ctrlBuf>>
    /\ UNCHANGED <<rclose, rindex, th, envVars>>
    /\ UNCHANGED libVars

\* Where the reactor goes on after evict_consumer returns.
EvictReturn ==
    /\ rpc' = rret
    /\ rerr' = FALSE
    /\ rcons' = 0
    /\ rret' = "none"
    /\ rnames' = {}
    /\ UNCHANGED <<lock, rbatch, rlines, loopExc, closeExc>>

\* evict_consumer, second part: `del self.singletons[singleton]` for each
\* name of the snapshot (KeyError when the name has gone since), then
\* startables.remove(old), stoppables.remove(old) and the purge of
\* self.notifiables.
evict_queues ==
    /\ rpc = "evict_queues"
    /\ IF ~(rnames \subseteq DOMAIN singletons)
       THEN /\ EvictRaise("KeyError")
            /\ UNCHANGED <<singletons, startables, stoppables, notifiables>>
       ELSE /\ singletons' = [n \in DOMAIN singletons \ rnames |->
                                 singletons[n]]
            /\ startables' = list_remove(startables, rcons)
            /\ stoppables' = list_remove(stoppables, rcons)
            /\ notifiables' = purge_notifiables(notifiables, rcons)
            /\ EvictReturn
    /\ UNCHANGED <<selector, consumers, contexts, evicted, closed, ctrlBuf>>
    /\ UNCHANGED <<rclose, rindex, th, envVars>>
    /\ UNCHANGED libVars

\* run(), the finally clause: _close() starts with list(self.contexts).
finally ==
    /\ rpc = "finally"
    /\ rclose' = contexts
    /\ rindex' = 0
    /\ rpc' = "_close"
    /\ UNCHANGED <<loopVars, rbatch, rlines, rcons, rret, rnames, loopExc,
                   closeExc, rerr>>
    /\ UNCHANGED <<th, envVars>>
    /\ UNCHANGED libVars

\* _close, one turn of its loop: `self.consumer.shutdown()` raises an
\* AttributeError (EventLoop has no attribute consumer) that is logged and
\* swallowed, so no callback runs; then evict_consumer(consumer).
close_evict ==
    /\ rpc = "_close"
    /\ rindex < Len(rclose)
    /\ rindex' = rindex + 1
    /\ rcons' = rclose[rindex + 1]
    /\ rret' = "_close"
    /\ rpc' = "evict"
    /\ UNCHANGED <<loopVars, rbatch, rlines, rnames, rclose, rerr, loopExc,
                   closeExc>>
    /\ UNCHANGED <<th, envVars>>
    /\ UNCHANGED libVars

\* _close after its loop: selector.unregister(ctrl_r), then
\* selector.unregister(ctrl_w), a KeyError when ctrl_w is not registered.
\* Only past that are the sockets and the selector closed and, back in
\* run(), `self.closed = True` set under the lock.
close_tail ==
    /\ rpc = "_close"
    /\ rindex = Len(rclose)
    /\ rpc' = "dead"
    /\ IF CTRL_W \in selector
       THEN /\ selector' = {}
            /\ closed' = TRUE
            /\ closeExc' = closeExc
       ELSE /\ selector' = selector \ {CTRL_R}
            /\ closed' = closed
            /\ closeExc' = <<"KeyError", "selector.unregister(ctrl_w)">>
    /\ UNCHANGED <<consumers, singletons, contexts, evicted, startables,
                   stoppables, notifiables, ctrlBuf, lock>>
    /\ UNCHANGED <<rbatch, rlines, rcons, rret, rnames, rclose, rindex, rerr,
                   loopExc>>
    /\ UNCHANGED <<th, envVars>>
    /\ UNCHANGED libVars

\* ---------------------------------------------------------- specification
Next ==
    \/ \E t \in Threads, c \in Consumers : notify_me_check(t, c)
    \/ \E t \in Threads : notify_me_locked(t)
    \/ \E t \in Threads, c \in Consumers : shut_me_down_check(t, c)
    \/ \E t \in Threads : shut_me_down_locked(t)
    \/ \E t \in Threads, n \in Names : singleton_check(t, n)
    \/ \E t \in Threads : singleton_pop(t)
    \/ \E t \in Threads : singleton_ctx(t)
    \/ \E t \in Threads : singleton_shut_me_down(t)
    \/ \E t \in Threads : singleton_add(t)
    \/ \E t \in Threads : close_send(t)
    \/ \E t \in Threads : close_join(t)
    \/ \E b \in Batches : select(b)
    \/ run_next
    \/ run_one_ctrl
    \/ \E release, raises \in BOOLEAN : run_one_event(release, raises)
    \/ wake_lock
    \/ \E release, raises \in BOOLEAN : wake_stop(release, raises)
    \/ wake_stops_done
    \/ \E k \in 0..NumFds, raises \in BOOLEAN : wake_start(k, raises)
    \/ wake_starts_done
    \/ \E call \in CtxCalls, fd \in Fds, raises \in BOOLEAN :
          wake_notify(call, fd, raises)
    \/ wake_done
    \/ \E release, raises \in BOOLEAN : evict_on_fail(release, raises)
    \/ evict_consumer
    \/ evict_queues
    \/ finally
    \/ close_evict
    \/ close_tail

Spec == Init /\ [][Next]_vars

\* The loop when lines other than quit and wake can reach ctrl_r.
InitProto == Started(ProtoOps) /\ LibIdle

NextProto ==
    \/ Next
    \/ \E t \in Threads : ctrl_other(t)

SpecProto == InitProto /\ [][NextProto]_vars

\* The loop when events.py is reloaded.
InitReload == Started(ReloadOps) /\ LibIdle

NextReload ==
    \/ Next
    \/ \E t \in Threads : reload_close(t)
    \/ \E t \in Threads : reload_join(t)
    \/ \E t \in Threads : reload_new(t)

SpecReload == InitReload /\ [][NextReload]_vars

\* The loop when every thread gets to run: the reactor thread, started by
\* x.start(), takes its next step whenever it has one (select() returns
\* when a key is ready, the lock is granted when it is free), and a thread
\* inside a call goes on to the end of the call.  Nothing makes a thread
\* begin a call.
InitLive == Started(LiveOps) /\ LibIdle

Reactor ==
    \/ \E b \in Batches : select(b)
    \/ run_next
    \/ run_one_ctrl
    \/ \E release, raises \in BOOLEAN : run_one_event(release, raises)
    \/ wake_lock
    \/ \E release, raises \in BOOLEAN : wake_stop(release, raises)
    \/ wake_stops_done
    \/ \E k \in 0..NumFds, raises \in BOOLEAN : wake_start(k, raises)
    \/ wake_starts_done
    \/ \E call \in CtxCalls, fd \in Fds, raises \in BOOLEAN :
          wake_notify(call, fd, raises)
    \/ wake_done
    \/ \E release, raises \in BOOLEAN : evict_on_fail(release, raises)
    \/ evict_consumer
    \/ evict_queues
    \/ finally
    \/ close_evict
    \/ close_tail

Caller(t) ==
    \/ notify_me_locked(t)
    \/ shut_me_down_locked(t)
    \/ singleton_pop(t)
    \/ singleton_ctx(t)
    \/ singleton_shut_me_down(t)
    \/ singleton_add(t)
    \/ close_join(t)

Fairness == WF_vars(Reactor) /\ \A t \in Threads : WF_vars(Caller(t))

SpecLive == InitLive /\ [][Next]_vars /\ Fairness

\* ------------------------------------------- callbacks that queue requests
\* A consumer callback run by the wake drain calls shut_me_down() or
\* notify_me() on its own context.  The reactor thread holds self.cond, a
\* threading.Condition() over an RLock, so `with self.loop.cond` is entered
\* again by the same thread.
Requests == {"shut_me_down", "notify_me"}

\* The call gets past `if self.evicted: return` and `if self.loop.closed`.
Asks(c) == ~evicted[c] /\ ~closed

\* The request's effect on the queues and on the control channel, q being
\* the to-stop queue the callback sees.
request(c, req, asks, q) ==
    /\ stoppables' = IF asks /\ req = "shut_me_down" THEN Append(q, c) ELSE q
    /\ notifiables' = IF asks /\ req = "notify_me"
                      THEN Append(notifiables, <<c, nextMsg>>)
                      ELSE notifiables
    /\ nextMsg' = IF asks /\ req = "notify_me" THEN nextMsg + 1 ELSE nextMsg
    /\ ctrlBuf' = IF asks THEN ctrl_send("wake") ELSE ctrlBuf
    /\ opsLeft' = opsLeft - 1

\* The log entry of the request.
Asked(c, req, asks) ==
    <<req, c, IF req = "notify_me" THEN nextMsg ELSE 0,
      IF asks THEN "queued" ELSE "evicted">>

\* `while self.stoppables`, with a shutdown() that makes a request.
wake_stop_req(release, raises, req) ==
    /\ rpc = "stops"
    /\ stoppables # <<>>
    /\ opsLeft > 0
    /\ LET c == Last(stoppables) IN
        /\ request(c, req, Asks(c), Front(stoppables))
        /\ log' = Append(Append(log, <<"shutdown", c, 0, "ok">>),
                         Asked(c, req, Asks(c)))
        /\ unregister(c, IF release THEN FdsOf(c) ELSE {})
        /\ rerr' = raises
        /\ rcons' = c
    /\ rret' = "stops"
    /\ rpc' = "evict"
    /\ UNCHANGED <<singletons, contexts, evicted, startables, closed, lock>>
    /\ UNCHANGED <<rbatch, rlines, rnames, rclose, rindex, loopExc, closeExc,
                   th>>
    /\ UNCHANGED <<nextId, madeFor, eventsLeft, closeDone>>
    /\ UNCHANGED libVars

\* `while self.startables`, with a startup(ctx) that makes a request on the
\* fresh context.
wake_start_req(k, raises, req) ==
    /\ rpc = "starts"
    /\ startables # <<>>
    /\ opsLeft > 0
    /\ LET c == Last(startables) IN
        /\ startables' = Front(startables)
        /\ contexts' = IF c \in Range(contexts) THEN contexts
                        ELSE Append(contexts, c)
        /\ evicted' = Put(evicted, c, FALSE)
        /\ request(c, req, ~closed, stoppables)
        /\ log' = Append(Append(log, <<"startup", c, 0,
                                        IF raises THEN "raise" ELSE "ok">>),
                         Asked(c, req, ~closed))
        /\ selector' = selector \cup FreeFds(k)
        /\ consumers' = [fd \in DOMAIN consumers \cup FreeFds(k) |->
                            IF fd \in FreeFds(k) THEN c ELSE consumers[fd]]
        /\ rcons' = IF raises THEN c ELSE 0
        /\ rret' = IF raises THEN "starts" ELSE "none"
        /\ rpc' = IF raises THEN "fail" ELSE "starts"
    /\ UNCHANGED <<singletons, closed, lock>>
    /\ UNCHANGED <<rbatch, rlines, rnames, rclose, rindex, rerr, loopExc,
                   closeExc, th>>
    /\ UNCHANGED <<nextId, madeFor, eventsLeft, closeDone>>
    /\ UNCHANGED libVars

\* `while self.notifiables`, with a notify(msg) that makes a request.
wake_notify_req(raises, req) ==
    /\ rpc = "notifies"
    /\ notifiables # <<>>
    /\ opsLeft > 0
    /\ LET e == Last(notifiables)
           asks == Asks(e[1])
       IN
        /\ stoppables' = IF asks /\ req = "shut_me_down"
                         THEN Append(stoppables, e[1]) ELSE stoppables
        /\ notifiables' = IF asks /\ req = "notify_me"
                          THEN Append(Front(notifiables), <<e[1], nextMsg>>)
                          ELSE Front(notifiables)
        /\ nextMsg' = IF asks /\ req = "notify_me" THEN nextMsg + 1
                      ELSE nextMsg
        /\ ctrlBuf' = IF asks THEN ctrl_send("wake") ELSE ctrlBuf
        /\ opsLeft' = opsLeft - 1
        /\ log' = Append(Append(log, <<"notify", e[1], e[2],
                                        IF raises THEN "raise" ELSE "ok">>),
                         Asked(e[1], req, asks))
        /\ rcons' = IF raises THEN e[1] ELSE 0
        /\ rret' = IF raises THEN "notifies" ELSE "none"
        /\ rpc' = IF raises THEN "fail" ELSE "notifies"
    /\ UNCHANGED <<selector, consumers, singletons, contexts, evicted,
                   startables, closed, lock>>
    /\ UNCHANGED <<rbatch, rlines, rnames, rclose, rindex, rerr, loopExc,
                   closeExc, th>>
    /\ UNCHANGED <<nextId, madeFor, eventsLeft, closeDone>>
    /\ UNCHANGED libVars

\* The callbacks of the drain, with a request.
Requesting ==
    \/ \E release, raises \in BOOLEAN, req \in Requests :
          wake_stop_req(release, raises, req)
    \/ \E k \in 0..NumFds, raises \in BOOLEAN, req \in Requests :
          wake_start_req(k, raises, req)
    \/ \E raises \in BOOLEAN, req \in Requests : wake_notify_req(raises, req)

InitDrain == Started(DrainOps) /\ LibIdle

NextDrain ==
    \/ Next
    \/ \E release, raises \in BOOLEAN, req \in Requests :
          wake_stop_req(release, raises, req)
    \/ \E k \in 0..NumFds, raises \in BOOLEAN, req \in Requests :
          wake_start_req(k, raises, req)
    \/ \E raises \in BOOLEAN, req \in Requests : wake_notify_req(raises, req)

SpecDrain ==
    /\ InitDrain
    /\ [][NextDrain]_vars
    /\ WF_vars(Reactor \/ Requesting)
    /\ \A t \in Threads : WF_vars(Caller(t))

\* ------------------------------------------------- langserv/docstate.py
\* The loop is not exercised while a library class is.
LoopIdle == Started(0)

Min(S) == CHOOSE x \in S : \A y \in S : x <= y

\* Characters of a text; a text is a sequence of them.
Chars == {"a", "b", "\n"}

Strings(n) == UNION {[1..k -> Chars] : k \in 0..n}

Positions == [line : 0..MaxLine, character : 0..MaxChar]

Ranges == [start : Positions, end : Positions]

Changes == [text : Strings(MaxNew),
            range : {<<>>} \cup {<<r>> : r \in Ranges},
            rangeLength : {<<>>, <<1>>}]

\* str.find(sub, start) for a one-character sub: the lowest index at or
\* after start where it occurs, counting from 0, or -1.
find(text, sub, start) ==
    LET hits == {j \in start..(Len(text) - 1) : text[j + 1] = sub}
    IN  IF hits = {} THEN -1 ELSE Min(hits)

\* text[:n] and text[n:] for n >= 0.
slice_to(text, n) == SubSeq(text, 1, IF n < Len(text) THEN n ELSE Len(text))

slice_from(text, n) == SubSeq(text, n + 1, Len(text))

\* What Position.index returns when it raises ValueError.
Raised == -1

\* A Position.index that takes every position to be on the first line.
index_first_line(pos, text) == pos.character

\* The loop of Position.index: l lines still to skip, i the offset reached.
RECURSIVE index_loop(_, _, _)
index_loop(text, l, i) ==
    IF l = 0
    THEN i
    ELSE LET j == find(text, "\n", i) + 1
         IN  IF j = 0 THEN Raised ELSE index_loop(text, l - 1, j)

\* Position.index
index(pos, text) ==
    LET i == index_loop(text, pos.line, 0)
    IN  IF i = Raised THEN Raised ELSE i + pos.character

\* ContentChange.apply: the new text, or the exception it raises.
apply(change, text) ==
    IF change.range = <<>>
    THEN IF change.rangeLength # <<>>
         THEN [exc |-> "ValueError", value |-> <<>>]
         ELSE [exc |-> "ok", value |-> change.text]
    ELSE LET start == index(change.range[1].start, text)
             end   == index(change.range[1].end, text)
         IN  IF start = Raised \/ end = Raised
             THEN [exc |-> "ValueError", value |-> <<>>]
             ELSE [exc |-> "ok",
                   value |-> slice_to(text, start) \o change.text
                             \o slice_from(text, end)]

\* Document.did_change
did_change(change) ==
    /\ changesLeft > 0
    /\ changesLeft' = changesLeft - 1
    /\ LET r == apply(change, docText)
       IN  /\ docRes' = r.exc
           /\ docText' = IF r.exc = "ok" THEN r.value ELSE docText
    /\ docOld' = docText
    /\ docChange' = change
    /\ UNCHANGED <<loopVars, reactorVars, th, envVars, podVars, spkVars, genVars, parVars, poolVars>>

\* Document(text) for every short text, then did_change calls.
InitDoc ==
    /\ LoopIdle
    /\ PoolIdle
    /\ ParserIdle
    /\ GenIdle
    /\ PodIdle
    /\ SpeakIdle
    /\ docText \in Strings(MaxText)
    /\ docOld = docText
    /\ docChange = NoChange
    /\ docRes = "none"
    /\ changesLeft = MaxChanges

NextDoc == \E change \in Changes : did_change(change)

SpecDoc == InitDoc /\ [][NextDoc]_vars

\* ------------------------------------ langserv/docstate.py, langserv/pod.py
\* The classes of the test drivers: Foo (a: str, b: Optional[str] = None)
\* and Bar (foo: Foo, opt: Optional[Foo] = None).
PodClasses == {"Foo", "Bar"}

Strs == {"asdf", "zxcv"}

\* cls.__annotations__, in declaration order.
Annotations(cls) == IF cls = "Foo" THEN <<"a", "b">> ELSE <<"foo", "opt">>

\* The annotation of an attribute with Optional removed.
anno_of(cls, attr) == IF cls = "Foo" THEN "str" ELSE "Foo"

\* The attributes declared with a default (None).
has_default(cls, attr) == attr \in {"b", "opt"}

\* An annotation test that takes no annotation for a POD class.
anno_never_pod(anno) == FALSE

\* type(anno) is PODMeta; issubclass(anno, POD) in pod.py
anno_is_pod(anno) == anno \in PodClasses

\* A value test that takes no value for a POD object.
value_never_pod(value) == FALSE

\* type(type(value)) is PODMeta; isinstance(value, POD) in pod.py
value_is_pod(value) == value[1] = "ref"

\* setattr(self, attr, value)
setattr(h, self, attr, value) ==
    [h EXCEPT ![self].attrs = Put(h[self].attrs, attr, value)]

\* getattr(self, attr): the instance attribute, else the class default.
getattr(h, self, attr) ==
    IF attr \in DOMAIN h[self].attrs THEN h[self].attrs[attr] ELSE None

\* The outcome of a constructor: the exception raised, the heap and the
\* address of the object.
Built(h, self) == [exc |-> "none", heap |-> h, addr |-> self]

Failed(h) == [exc |-> "TypeError", heap |-> h, addr |-> 0]

RECURSIVE new_init(_, _, _, _)
RECURSIVE auto_init_loop(_, _, _, _)
RECURSIVE auto_copy_loop(_, _, _, _)

\* The loop of auto_init over bound.arguments, attrs being those left.
auto_init_loop(h, self, kwargs, attrs) ==
    IF attrs = <<>>
    THEN Built(h, self)
    ELSE LET attr  == Head(attrs)
             anno  == anno_of(h[self].cls, attr)
         IN  IF attr \notin DOMAIN kwargs
             THEN auto_init_loop(h, self, kwargs, Tail(attrs))
             ELSE IF anno_is_pod(anno)
             THEN LET r == new_init(h, anno, kwargs[attr], <<>>)
                  IN  IF r.exc # "none"
                      THEN r
                      ELSE auto_init_loop(
                               setattr(r.heap, self, attr, Ref(r.addr)),
                               self, kwargs, Tail(attrs))
             ELSE auto_init_loop(setattr(h, self, attr, kwargs[attr]),
                                 self, kwargs, Tail(attrs))

\* auto_init: auto_sig.bind(**kwargs) raises TypeError for a keyword that
\* is no annotation and for a missing attribute without default.
auto_init(h, self, kwargs) ==
    LET cls   == h[self].cls
        names == Range(Annotations(cls))
    IN  IF \/ ~(DOMAIN kwargs \subseteq names)
           \/ \E attr \in names :
                  ~has_default(cls, attr) /\ attr \notin DOMAIN kwargs
        THEN Failed(h)
        ELSE auto_init_loop(h, self, kwargs, Annotations(cls))

\* The loop of auto_copy over vars(other), attrs being those left.
auto_copy_loop(h, self, other, attrs) ==
    IF attrs = <<>>
    THEN Built(h, self)
    ELSE LET attr == Head(attrs)
         IN  IF attr \notin DOMAIN h[other].attrs
             THEN auto_copy_loop(h, self, other, Tail(attrs))
             ELSE LET value == h[other].attrs[attr]
                  IN  IF value_is_pod(value)
                      THEN LET r == new_init(h, h[value[2]].cls, value, <<>>)
                           IN  IF r.exc # "none"
                               THEN r
                               ELSE auto_copy_loop(
                                        setattr(r.heap, self, attr,
                                                Ref(r.addr)),
                                        self, other, Tail(attrs))
                      ELSE auto_copy_loop(setattr(h, self, attr, value),
                                          self, other, Tail(attrs))

\* auto_copy
auto_copy(h, self, other) ==
    auto_copy_loop(h, self, other, Annotations(h[other].cls))

\* cls(_obj, **kwargs): the object is allocated, then new_init fills it.
new_init(h, cls, obj, kwargs) ==
    LET self == Len(h) + 1
        h1   == Append(h, [cls |-> cls, attrs |-> <<>>])
    IN  IF obj[1] = "None"
        THEN auto_init(h1, self, kwargs)
        ELSE IF obj[1] = "dict"
        THEN auto_init(h1, self, obj[2])
        ELSE IF obj[1] = "ref" /\ h[obj[2]].cls = cls
        THEN auto_copy(h1, self, obj[2])
        ELSE Failed(h1)

RECURSIVE pod_eq(_, _, _)
RECURSIVE value_eq(_, _, _)

\* value == other for two Python values
value_eq(h, v, w) ==
    IF v[1] # w[1]
    THEN FALSE
    ELSE IF v[1] = "ref"
    THEN pod_eq(h, v[2], w[2])
    ELSE IF v[1] = "dict"
    THEN /\ DOMAIN v[2] = DOMAIN w[2]
         /\ \A k \in DOMAIN v[2] : value_eq(h, v[2][k], w[2][k])
    ELSE v[2] = w[2]

\* POD.__eq__
pod_eq(h, self, other) ==
    /\ h[self].cls = h[other].cls
    /\ \A attr \in Range(Annotations(h[self].cls)) :
           value_eq(h, getattr(h, self, attr), getattr(h, other, attr))

\* The field values of a Foo and of a Bar, as the dictionary the parsing
\* constructor takes; an Optional field may be left out or be None.
FooFields ==
    UNION {[{"a"} \cup bs -> {Str(x) : x \in Strs} \cup {None}] :
           bs \in SUBSET {"b"}}

BarFields ==
    UNION {[{"foo"} \cup os -> {Dict(d) : d \in FooFields} \cup {None}] :
           os \in SUBSET {"opt"}}

\* The keyword arguments with every nested dictionary replaced by an
\* object built from it first, as in Bar(foo=Foo(a="asdf")).
RECURSIVE objectify(_, _, _)
objectify(h, kwargs, attrs) ==
    IF attrs = <<>>
    THEN [exc |-> "none", heap |-> h, kwargs |-> kwargs]
    ELSE LET attr == Head(attrs)
         IN  IF attr \in DOMAIN kwargs /\ kwargs[attr][1] = "dict"
             THEN LET r == new_init(h, "Foo", None, kwargs[attr][2])
                  IN  IF r.exc # "none"
                      THEN [exc |-> r.exc, heap |-> r.heap,
                            kwargs |-> kwargs]
                      ELSE objectify(r.heap,
                                     Put(kwargs, attr, Ref(r.addr)),
                                     Tail(attrs))
             ELSE objectify(h, kwargs, Tail(attrs))

\* The arguments of a constructor call: the fields as they are, or with
\* the nested POD fields given as objects.
Arguments(nested) ==
    IF nested = "dict" \/ podFields.cls = "Foo"
    THEN [exc |-> "none", heap |-> podHeap, kwargs |-> podFields.fields]
    ELSE objectify(podHeap, podFields.fields, Annotations(podFields.cls))

\* The caller keeps the object a constructor returned; a constructor that
\* raised leaves nothing to keep.
Keep(r, how, src, arg) ==
    /\ podOpsLeft > 0
    /\ podOpsLeft' = podOpsLeft - 1
    /\ podHeap' = r.heap
    /\ podRoots' = IF r.exc = "none"
                   THEN Append(podRoots, [addr |-> r.addr, how |-> how,
                                          src |-> src])
                   ELSE podRoots
    /\ podLast' = [op |-> how, obj |-> r.addr, attr |-> "", value |-> arg,
                   exc |-> r.exc]
    /\ UNCHANGED <<loopVars, reactorVars, th, envVars, docVars, spkVars, genVars, parVars, poolVars>>
    /\ UNCHANGED <<podFields, podAssigned>>

\* x = Cls(attr=value, ...)
build_kw(nested) ==
    LET args == Arguments(nested)
        r    == IF args.exc # "none"
                THEN Failed(args.heap)
                ELSE new_init(args.heap, podFields.cls, None, args.kwargs)
    IN  Keep(r, "kw", 0, None)

\* x = Cls({attr: value, ...})
build_dict(nested) ==
    LET args == Arguments(nested)
        r    == IF args.exc # "none"
                THEN Failed(args.heap)
                ELSE new_init(args.heap, podFields.cls, Dict(args.kwargs),
                              <<>>)
    IN  Keep(r, "dict", 0, None)

\* x = Cls(y) for an object y the caller holds
build_copy(i) ==
    /\ i \in DOMAIN podRoots
    /\ LET other == podRoots[i].addr
       IN  Keep(new_init(podHeap, podHeap[other].cls, Ref(other), <<>>),
                "copy", other, Ref(other))

\* The objects reachable from an object: itself and its nested PODs.
Reach(h, addr) ==
    {addr} \cup {h[addr].attrs[attr][2] :
                    attr \in {k \in DOMAIN h[addr].attrs :
                                 h[addr].attrs[k][1] = "ref"}}

\* x.attr = value or x.nested.attr = value, for a str attribute
assign(i, obj, attr, value) ==
    /\ podOpsLeft > 0
    /\ i \in DOMAIN podRoots
    /\ obj \in Reach(podHeap, podRoots[i].addr)
    /\ podHeap[obj].cls = "Foo"
    /\ podOpsLeft' = podOpsLeft - 1
    /\ podHeap' = setattr(podHeap, obj, attr, value)
    /\ podLast' = [op |-> "assign", obj |-> obj, attr |-> attr,
                   value |-> value, exc |-> "none"]
    /\ podAssigned' = TRUE
    /\ UNCHANGED <<loopVars, reactorVars, th, envVars, docVars, spkVars, genVars, parVars, poolVars>>
    /\ UNCHANGED <<podFields, podRoots>>

InitPod ==
    /\ LoopIdle
    /\ PoolIdle
    /\ ParserIdle
    /\ GenIdle
    /\ DocIdle
    /\ SpeakIdle
    /\ podFields \in [cls : {"Foo"}, fields : FooFields]
                     \cup [cls : {"Bar"}, fields : BarFields]
    /\ podHeap = <<>>
    /\ podRoots = <<>>
    /\ podLast = NoCall
    /\ podAssigned = FALSE
    /\ podOpsLeft = MaxPodOps

NextPod ==
    \/ \E nested \in {"dict", "obj"} : build_kw(nested)
    \/ \E nested \in {"dict", "obj"} : build_dict(nested)
    \/ \E i \in DOMAIN podRoots : build_copy(i)
    \/ \E i \in DOMAIN podRoots, obj \in DOMAIN podHeap,
          attr \in {"a", "b"}, value \in {Str(x) : x \in Strs} \cup {None} :
          assign(i, obj, attr, value)

SpecPod == InitPod /\ [][NextPod]_vars

\* -------------------------------------------------------------- speakify.py
\* Characters of symbols and prefixes.
SymChars == {"a", "c", ".", "-", "1"}

Symbols(n) == UNION {[1..k -> SymChars] : k \in 0..n}

Max(S) == CHOOSE x \in S : \A y \in S : x >= y

\* The character class [0-9._/-] of the two regular expressions.
is_symbolic(ch) ==
    ch \in {"0", "1", "2", "3", "4", "5", "6", "7", "8", "9",
            ".", "_", "/", "-"}

\* str.replace(old, new) for a one-character old
RECURSIVE replace(_, _, _)
replace(x, old, new) ==
    IF x = <<>>
    THEN <<>>
    ELSE (IF Head(x) = old THEN new ELSE <<Head(x)>>)
             \o replace(Tail(x), old, new)

\* str.startswith
startswith(x, prefix) ==
    Len(x) >= Len(prefix) /\ SubSeq(x, 1, Len(prefix)) = prefix

\* x[n:]
drop(x, n) == SubSeq(x, n + 1, Len(x))

\* re.sub of an extension at the end of x
sub_ext(x, ext, repl) ==
    IF Len(x) >= Len(ext) /\ drop(x, Len(x) - Len(ext)) = ext
    THEN SubSeq(x, 1, Len(x) - Len(ext)) \o repl
    ELSE x

file_extensions(x) ==
    LET x1 == sub_ext(x, <<".", "p", "y">>,
                      <<" ", "d", "o", "t", " ", "p", "i", "e">>)
        x2 == sub_ext(x1, <<".", "c">>,
                      <<" ", "d", "o", "t", " ", "s", "e", "e">>)
        x3 == sub_ext(x2, <<".", "h">>, <<" ", "d", "o", "t", " ", "h">>)
        x4 == sub_ext(x3, <<".", "s", "h">>,
                      <<" ", "d", "o", "t", " ", "s", " ", "h">>)
        x5 == sub_ext(x4, <<".", "z", "s", "h">>,
                      <<" ", "d", "o", "t", " ", "z", " ", "s", " ", "h">>)
    IN  sub_ext(x5, <<".", "g", "o">>, <<" ", "d", "o", "t", " ", "g", "o">>)

numbers(x) ==
    LET x0 == replace(x, "0", <<" ", "z", "e", "r", "o", " ">>)
        x1 == replace(x0, "1", <<" ", "o", "n", "e", " ">>)
        x2 == replace(x1, "2", <<" ", "t", "w", "o", " ">>)
        x3 == replace(x2, "3", <<" ", "t", "h", "r", "e", "e", " ">>)
        x4 == replace(x3, "4", <<" ", "f", "o", "u", "r", " ">>)
        x5 == replace(x4, "5", <<" ", "f", "i", "v", "e", " ">>)
        x6 == replace(x5, "6", <<" ", "s", "i", "x", " ">>)
        x7 == replace(x6, "7", <<" ", "s", "e", "v", "e", "n", " ">>)
        x8 == replace(x7, "8", <<" ", "e", "i", "g", "h", "t", " ">>)
    IN  replace(x8, "9", <<" ", "n", "i", "n", "e", " ">>)

\* re.sub(" +", " ", x)
RECURSIVE squeeze(_)
squeeze(x) ==
    IF Len(x) < 2
    THEN x
    ELSE IF x[1] = " " /\ x[2] = " "
    THEN squeeze(Tail(x))
    ELSE <<x[1]>> \o squeeze(Tail(x))

\* str.strip() of a string whose only whitespace is the space
RECURSIVE strip(_)
strip(x) ==
    IF x = <<>>
    THEN x
    ELSE IF Head(x) = " "
    THEN strip(Tail(x))
    ELSE IF x[Len(x)] = " "
    THEN strip(SubSeq(x, 1, Len(x) - 1))
    ELSE x

\* punctuation(x, specials), specials being the set of its characters
punctuation(x, specials) ==
    LET word(ch, w) == IF ch \in specials THEN <<" ">> \o w \o <<" ">>
                       ELSE <<" ">>
        x1 == replace(x, ".", word(".", <<"d", "o", "t">>))
        x2 == replace(x1, "_", word("_", <<"u", "n", "d", "e", "r">>))
        x3 == replace(x2, "-", word("-", <<"d", "a", "s", "h">>))
        x4 == replace(x3, "/", word("/", <<"s", "l", "a", "s", "h">>))
    IN  strip(squeeze(x4))

FULL == 1
NOPREFIX == 2
SHORTHAND == 3
SHORTHAND_NOPREFIX == 4

\* Speakifier.__init__: self.dont_speak, the length of the prefix up to
\* its last symbolic character
dont_speak(prefix) ==
    LET at == {i \in 1..Len(prefix) : is_symbolic(prefix[i])}
    IN  IF at = {} THEN 0 ELSE Max(at)

\* d[key] = value for a dict d
setitem(d, key, value) == (key :> value) @@ d

\* An _add_pronunciation that keeps the kind of the latest call.
add_pronunciation_latest(pron, speakable, symbol, kind, src) ==
    LET kinds == IF speakable \in DOMAIN pron THEN pron[speakable] ELSE <<>>
    IN  setitem(pron, speakable, setitem(kinds, symbol, <<kind, src>>))

\* Speakifier._add_pronunciation
add_pronunciation(pron, speakable, symbol, kind, src) ==
    LET kinds == IF speakable \in DOMAIN pron THEN pron[speakable] ELSE <<>>
    IN  IF symbol \in DOMAIN kinds /\ kind > kinds[symbol][1]
        THEN setitem(pron, speakable, kinds)
        ELSE setitem(pron, speakable, setitem(kinds, symbol, <<kind, src>>))

\* Speakifier._gen_variations: the pronunciations it adds, in order
gen_variations(speakable, kind) ==
    IF speakable = <<>>
    THEN <<>>
    ELSE LET x == numbers(file_extensions(speakable))
         IN  << <<punctuation(x, {}), kind, speakable>>,
                <<punctuation(x, {".", "_", "-", "/"}), kind, speakable>>,
                <<punctuation(x, {"."}), kind, speakable>>,
                <<punctuation(x, {"_"}), kind, speakable>>,
                <<punctuation(x, {"-"}), kind, speakable>>,
                <<punctuation(x, {"/"}), kind, speakable>> >>

\* The shorthand of add_symbol: what precedes the first symbolic
\* character, or no match.
shorthand_of(speakable) ==
    LET at == {i \in 1..Len(speakable) : is_symbolic(speakable[i])}
    IN  IF at = {}
        THEN [match |-> FALSE, text |-> <<>>]
        ELSE [match |-> TRUE, text |-> SubSeq(speakable, 1, Min(at) - 1)]

\* Speakifier.add_symbol: every <<speakable, kind, src>> it adds, in order
variations(self_prefix, symbol) ==
    LET speakable == drop(symbol, dont_speak(self_prefix))
        prefix    == drop(self_prefix, dont_speak(self_prefix))
        shorthand == shorthand_of(speakable)
    IN  gen_variations(speakable, FULL)
        \o (IF prefix # <<>>
            THEN gen_variations(drop(speakable, Len(prefix)), NOPREFIX)
            ELSE <<>>)
        \o (IF shorthand.match
            THEN gen_variations(shorthand.text, SHORTHAND)
                 \o (IF Len(prefix) < Len(shorthand.text)
                     THEN gen_variations(drop(shorthand.text, Len(prefix)),
                                         SHORTHAND_NOPREFIX)
                     ELSE <<>>)
            ELSE <<>>)

\* variations, tabulated for the prefixes and symbols in use.
Variations ==
    [self_prefix \in Symbols(MaxPrefix), symbol \in Symbols(MaxSym) |->
        variations(self_prefix, symbol)]

RECURSIVE add_all(_, _, _)
add_all(pron, symbol, calls) ==
    IF calls = <<>>
    THEN pron
    ELSE add_all(add_pronunciation(pron, calls[1][1], symbol, calls[1][2],
                                   calls[1][3]),
                 symbol, Tail(calls))

\* The history of the _add_pronunciation calls of one add_symbol.
RECURSIVE gen_all(_, _, _)
gen_all(gen, symbol, calls) ==
    IF calls = <<>>
    THEN gen
    ELSE gen_all(gen \cup {<<calls[1][1], symbol, calls[1][2]>>}, symbol,
                 Tail(calls))

add_symbol(symbol) ==
    /\ spkOpsLeft > 0
    /\ spkOpsLeft' = spkOpsLeft - 1
    /\ LET calls == Variations[spkPrefix, symbol]
       IN  /\ pronounce' = add_all(pronounce, symbol, calls)
           /\ spkGen' = gen_all(spkGen, symbol, calls)
    /\ spkListed' = FALSE
    /\ UNCHANGED <<loopVars, reactorVars, th, envVars, docVars, podVars, genVars, parVars, poolVars>>
    /\ UNCHANGED <<spkPrefix, spkOut>>

\* json.dumps(vars(Edit(prefix, results))): a JSON object with the prefix
\* and the results, each (kind, src) tuple made an array.
json_dumps(prefix, results) ==
    <<"json", [prefix  |-> prefix,
               results |-> [symbol \in DOMAIN results |->
                               <<results[symbol][1], results[symbol][2]>>]]>>

get_talon_list ==
    /\ spkOpsLeft > 0
    /\ spkOpsLeft' = spkOpsLeft - 1
    /\ spkOut' =
           [speakable \in DOMAIN pronounce |->
               LET results == pronounce[speakable]
                   symbol  == CHOOSE x \in DOMAIN results : TRUE
               IN  IF /\ Cardinality(DOMAIN results) = 1
                      /\ startswith(symbol, spkPrefix)
                   THEN <<"str", drop(symbol, Len(spkPrefix))>>
                   ELSE json_dumps(spkPrefix, results)]
    /\ spkListed' = TRUE
    /\ UNCHANGED <<loopVars, reactorVars, th, envVars, docVars, podVars, genVars, parVars, poolVars>>
    /\ UNCHANGED <<spkPrefix, pronounce, spkGen>>

\* Speakifier(prefix) for every short prefix
InitSpeak ==
    /\ LoopIdle
    /\ PoolIdle
    /\ ParserIdle
    /\ GenIdle
    /\ DocIdle
    /\ PodIdle
    /\ spkPrefix \in Symbols(MaxPrefix)
    /\ pronounce = <<>>
    /\ spkGen = {}
    /\ spkOut = <<>>
    /\ spkListed = FALSE
    /\ spkOpsLeft = MaxSpeakOps

NextSpeak ==
    \/ \E symbol \in Symbols(MaxSym) : add_symbol(symbol)
    \/ get_talon_list

SpecSpeak == InitSpeak /\ [][NextSpeak]_vars

\* ---------------------------------------------------------- singletons.py
\* The generator functions passed to singleton(): up to MaxYields yield
\* statements, and an exception raised before the first yield ("startup"),
\* after it ("cleanup") or nowhere.
Fns == [yields : 0..MaxYields, raises : {"none", "startup", "cleanup"}]

\* `next(it)` on a fresh generator: it raises the function's exception,
\* raises StopIteration when the function has no yield, or stops at the
\* first yield.
first_next(fn) ==
    IF fn.raises = "startup" THEN "raised"
    ELSE IF fn.yields = 0 THEN "done"
    ELSE "yield1"

\* `next(old)` on a generator that stands at its first yield: the code
\* after the yield raises, stops at a second yield, or ends (StopIteration).
second_next(g) ==
    IF g.raises = "cleanup" THEN "raised"
    ELSE IF g.yields >= 2 THEN "yield2"
    ELSE "done"

\* singleton(fn): `name = ...; if name in _singletons`.
singleton_begin(name, fn) ==
    /\ gpc = "idle"
    /\ genOpsLeft > 0
    /\ genOpsLeft' = genOpsLeft - 1
    /\ gname' = name
    /\ gfn' = fn
    /\ gerr' = "none"
    /\ gpc' = IF name \in DOMAIN modSingletons THEN "cleanup" ELSE "startup"
    /\ UNCHANGED <<modSingletons, gens>>
    /\ UNCHANGED <<loopVars, reactorVars, th, envVars, docVars, podVars, spkVars, parVars, poolVars>>

\* A singleton() that forgets the old generator without resuming it.
singleton_forget ==
    /\ gpc = "cleanup"
    /\ modSingletons' = Drop(modSingletons, gname)
    /\ gpc' = "startup"
    /\ UNCHANGED <<gens, gname, gfn, gerr, genOpsLeft>>
    /\ UNCHANGED <<loopVars, reactorVars, th, envVars, docVars, podVars, spkVars, parVars, poolVars>>

\* `old = _singletons.pop(name)` and `next(old)`: StopIteration is passed
\* over, a second yield is logged as an error, any other exception escapes
\* singleton().
singleton_cleanup ==
    /\ gpc = "cleanup"
    /\ LET old == modSingletons[gname]
           out == second_next(gens[old])
       IN
        /\ modSingletons' = Drop(modSingletons, gname)
        /\ gens' = [gens EXCEPT ![old].status = out,
                                ![old].resumed = @ + 1]
        /\ gerr' = IF out = "yield2" THEN "logged"
                   ELSE IF out = "raised" THEN "raised" ELSE gerr
        /\ gpc' = IF out = "raised" THEN "idle" ELSE "startup"
    /\ UNCHANGED <<gname, gfn, genOpsLeft>>
    /\ UNCHANGED <<loopVars, reactorVars, th, envVars, docVars, podVars, spkVars, parVars, poolVars>>

\* `it = iter(fn()); obj = next(it)`: an exception of the startup code, or
\* the StopIteration of a function without yield, escapes singleton().
singleton_startup ==
    /\ gpc = "startup"
    /\ gens' = Append(gens, [name |-> gname, yields |-> gfn.yields,
                             raises |-> gfn.raises,
                             status |-> first_next(gfn), resumed |-> 0])
    /\ gerr' = IF first_next(gfn) = "yield1" THEN gerr
               ELSE IF first_next(gfn) = "done" THEN "StopIteration"
               ELSE "raised"
    /\ gpc' = IF first_next(gfn) = "yield1" THEN "store" ELSE "idle"
    /\ UNCHANGED <<modSingletons, gname, gfn, genOpsLeft>>
    /\ UNCHANGED <<loopVars, reactorVars, th, envVars, docVars, podVars, spkVars, parVars, poolVars>>

\* `_singletons[name] = it; return obj`.
singleton_store ==
    /\ gpc = "store"
    /\ modSingletons' = Put(modSingletons, gname, Len(gens))
    /\ gpc' = "idle"
    /\ UNCHANGED <<gens, gname, gfn, gerr, genOpsLeft>>
    /\ UNCHANGED <<loopVars, reactorVars, th, envVars, docVars, podVars, spkVars, parVars, poolVars>>

InitGen ==
    /\ LoopIdle
    /\ PoolIdle
    /\ ParserIdle
    /\ DocIdle
    /\ PodIdle
    /\ SpeakIdle
    /\ modSingletons = <<>>
    /\ gens = <<>>
    /\ gpc = "idle"
    /\ gname = 0
    /\ gfn = NoFn
    /\ gerr = "none"
    /\ genOpsLeft = MaxDecls

NextGen ==
    \/ \E name \in 1..NumGenNames, fn \in Fns : singleton_begin(name, fn)
    \/ singleton_cleanup
    \/ singleton_startup
    \/ singleton_store

SpecGen == InitGen /\ [][NextGen]_vars

\* ------------------------------------------------------- langserv/util.py
CR == "\r"
LF == "\n"

CONTENT_LENGTH == <<"C", "o", "n", "t", "e", "n", "t", "-", "L", "e", "n", "g", "t", "h", ":">>

\* Offsets, counted from 0, where sub occurs in x.
occurs(x, sub) ==
    {i \in 0..(Len(x) - Len(sub)) : SubSeq(x, i + 1, i + Len(sub)) = sub}

\* `sub in x` and x.index(sub) for bytes.
contains(x, sub) == occurs(x, sub) # {}

bytes_index(x, sub) == Min(occurs(x, sub))

\* x.rstrip(chars): the trailing bytes that are in chars are removed.
RECURSIVE rstrip(_, _)
rstrip(x, chars) ==
    IF x # <<>> /\ Last(x) \in chars THEN rstrip(Front(x), chars) ELSE x

\* ASCII whitespace, as bytes.split() and bytes.strip() take it.
Whitespace == {" ", "\t", CR, LF}

RECURSIVE lstrip(_, _)
lstrip(x, chars) ==
    IF x # <<>> /\ Head(x) \in chars THEN lstrip(Tail(x), chars) ELSE x

\* x.split(sep): the pieces between the occurrences of sep, left to right.
RECURSIVE split(_, _)
split(x, sep) ==
    IF ~contains(x, sep)
    THEN <<x>>
    ELSE <<slice_to(x, bytes_index(x, sep))>>
         \o split(slice_from(x, bytes_index(x, sep) + Len(sep)), sep)

\* x.split(): the runs of bytes that are not whitespace.
RECURSIVE split_whitespace(_)
split_whitespace(x) ==
    IF x = <<>>
    THEN <<>>
    ELSE IF Head(x) \in Whitespace
    THEN split_whitespace(Tail(x))
    ELSE LET stops == {i \in 1..Len(x) : x[i] \in Whitespace}
             n == IF stops = {} THEN Len(x) ELSE Min(stops) - 1
         IN  <<slice_to(x, n)>> \o split_whitespace(slice_from(x, n))

\* x.split(b":", 1): one piece when x has no colon, else two.
split_colon(x) ==
    IF ~contains(x, <<":">>)
    THEN <<x>>
    ELSE <<slice_to(x, bytes_index(x, <<":">>)),
           slice_from(x, bytes_index(x, <<":">>) + 1)>>

Digit ==
    [c \in {"0", "1", "2", "3", "4", "5", "6", "7", "8", "9"} |->
        CASE c = "0" -> 0 [] c = "1" -> 1 [] c = "2" -> 2 [] c = "3" -> 3
          [] c = "4" -> 4 [] c = "5" -> 5 [] c = "6" -> 6 [] c = "7" -> 7
          [] c = "8" -> 8 [] c = "9" -> 9]

\* int(x) for bytes made of decimal digits; anything else is a ValueError.
is_int(x) == x # <<>> /\ \A i \in DOMAIN x : x[i] \in DOMAIN Digit

RECURSIVE int(_)
int(x) == IF x = <<>> THEN 0 ELSE 10 * int(Front(x)) + Digit[Last(x)]

\* str(n) for 0 <= n < 100.
str(n) ==
    LET d == [i \in 0..9 |-> CHOOSE c \in DOMAIN Digit : Digit[c] = i]
    IN  IF n < 10 THEN <<d[n]>> ELSE <<d[n \div 10], d[n % 10]>>

\* Parser.reset(leftover)
reset(p, leftover) ==
    [p EXCEPT !.buf = leftover, !.header_length = NoLength,
              !.full_length = NoLength]

\* find_headers, the loop over the lines of the header: a line that holds
\* Content-Length: sets full_length from its second word (IndexError when
\* it has one word, ValueError when the word is no number); every line is
\* then split at its first colon (ValueError when it has none) and stored in
\* self.headers.  content_length_found starts as True, so that the test
\* after the loop never raises.
RECURSIVE header_lines(_, _, _)
header_lines(p, lines, i) ==
    IF i > Len(lines)
    THEN p
    ELSE LET line == lines[i]
             words == split_whitespace(line)
             parts == split_colon(line)
             q == IF contains(line, CONTENT_LENGTH)
                  THEN IF Len(words) < 2
                       THEN [p EXCEPT !.exc = "IndexError"]
                       ELSE IF ~is_int(words[2])
                       THEN [p EXCEPT !.exc = "ValueError: invalid literal"]
                       ELSE [p EXCEPT !.full_length =
                                          int(words[2]) + p.header_length]
                  ELSE p
         IN  IF q.exc # "none"
             THEN q
             ELSE IF Len(parts) < 2
             THEN [q EXCEPT !.exc = "ValueError: not enough values to unpack"]
             ELSE header_lines(
                      [q EXCEPT !.headers =
                           Put(q.headers, parts[1],
                               rstrip(lstrip(parts[2], Whitespace),
                                      Whitespace))],
                      lines, i + 1)

\* The separator find_headers picks by looking at the whole buffer.
separator(buf) ==
    IF contains(buf, <<CR, LF, CR, LF>>) THEN <<CR, LF>>
    ELSE IF contains(buf, <<LF, LF>>) THEN <<LF>>
    ELSE <<>>

\* Parser.find_headers: the parser after the call; headers are found when
\* its full_length is set or its header_length is (a header without
\* Content-Length leaves full_length unset and returns True all the same).
find_headers(p) ==
    IF p.full_length # NoLength \/ separator(p.buf) = <<>>
    THEN p
    ELSE LET sep == separator(p.buf)
             header_length == bytes_index(p.buf, sep \o sep) + 2 * Len(sep)
             header == slice_to(p.buf, header_length)
         IN  header_lines([p EXCEPT !.header_length = header_length,
                                    !.headers = <<>>],
                          split(rstrip(header, Range(sep)), sep), 1)

\* What find_headers returned.
found_headers(p) ==
    p.full_length # NoLength \/ separator(p.buf) # <<>>

\* Parser.find_full_message and the loop of feed(): `len(self.buf) <
\* self.full_length` is a TypeError while full_length is None.
RECURSIVE feed_loop(_)
feed_loop(p) ==
    LET q == find_headers(p) IN
    IF q.exc # "none" \/ ~found_headers(p)
    THEN q
    ELSE IF q.full_length = NoLength
    THEN [q EXCEPT !.exc = "TypeError"]
    ELSE IF Len(q.buf) < q.full_length
    THEN q
    ELSE LET full == slice_to(q.buf, q.full_length)
             body == slice_from(full, q.header_length)
         IN  feed_loop(reset([q EXCEPT !.calls =
                                   Append(@, <<full, body, q.headers>>)],
                             slice_from(q.buf, q.full_length)))

\* Parser.feed(msg)
feed(p, msg) == feed_loop([p EXCEPT !.buf = p.buf \o msg])

\* A message laid out as make_content lays it out, with line ends sep and
\* one more header or none.
TYPE_HEADER == <<"T", "y", "p", "e", ":", " ", "x">>

Message(sep, typed, body) ==
    CONTENT_LENGTH \o <<" ">> \o str(Len(body)) \o sep
    \o (IF typed THEN TYPE_HEADER \o sep ELSE <<>>) \o sep \o body

\* JSON bodies: one without white space, and two with an empty line.
Bodies == {<<"{", "}">>, <<"{", LF, LF, "}">>, <<"{", CR, LF, CR, LF, "}">>}

Seps == {<<CR, LF>>, <<LF>>}

Messages ==
    {Message(sep, typed, body) : sep \in Seps, typed \in BOOLEAN,
                                 body \in Bodies}

\* Streams of complete messages.
Streams == Messages \cup {a \o b : a, b \in Messages}

\* Complete header blocks without Content-Length, with a body after them.
Headless ==
    {line \o sep \o sep \o <<"{", "}">> :
        line \in {TYPE_HEADER, <<"x">>}, sep \in Seps}

\* LangServ.event: `msg = self.conn.recv(4096)` returns the next n bytes of
\* the stream, and `self.parser.feed(msg)`.
recv_feed(n) ==
    /\ parser.exc = "none"
    /\ pfed + n <= Len(pstream)
    /\ parser' = feed(parser, SubSeq(pstream, pfed + 1, pfed + n))
    /\ pfed' = pfed + n
    /\ UNCHANGED <<pstream, pkind>>
    /\ UNCHANGED <<loopVars, reactorVars, th, envVars, docVars, podVars, spkVars, genVars, poolVars>>

InitParser ==
    /\ LoopIdle
    /\ PoolIdle
    /\ DocIdle
    /\ PodIdle
    /\ SpeakIdle
    /\ GenIdle
    /\ parser = NewParser
    /\ pfed = 0
    /\ \/ pkind = "messages" /\ pstream \in Streams
       \/ pkind = "headless" /\ pstream \in Headless

NextParser == \E n \in 1..MaxRecv : recv_feed(n)

SpecParser == InitParser /\ [][NextParser]_vars

\* --------------------------------------------------- langserv/langserv.py
\* LoopContext.register(fileobj) called by the pool or by a LangServ:
\* nothing when the context is evicted, KeyError when the file object is
\* registered already.
pool_register(p, fd) ==
    IF pctx = "evicted" THEN p
    ELSE IF fd \in p.sel THEN [p EXCEPT !.exc = "KeyError"]
    ELSE [p EXCEPT !.sel = @ \cup {fd}, !.tab = @ \cup {fd}]

\* LoopContext.unregister(fileobj): nothing when the context is evicted,
\* KeyError when the file object is not registered.
pool_unregister(p, fd) ==
    IF pctx = "evicted" THEN p
    ELSE IF fd \notin p.sel \/ fd \notin p.tab
    THEN [p EXCEPT !.sel = @ \ {fd}, !.exc = "KeyError"]
    ELSE [p EXCEPT !.sel = @ \ {fd}, !.tab = @ \ {fd}]

\* socket.close()
sock_close(p, fd) == [p EXCEPT !.closes[fd] = @ + 1]

\* LangServ.close
ls_close(p, conn) ==
    IF p.lang_servs[conn]
    THEN p
    ELSE LET q == pool_unregister([p EXCEPT !.lang_servs[conn] = TRUE], conn)
         IN  IF q.exc # "none" THEN q ELSE sock_close(q, conn)

\* `for ls in self.lang_servs.values(): ls.close()`, in the order in which
\* the connections were accepted; an exception ends the loop.
RECURSIVE close_all(_, _)
close_all(p, conns) ==
    IF conns = {} \/ p.exc # "none"
    THEN p
    ELSE close_all(ls_close(p, Min(conns)), conns \ {Min(conns)})

\* A shutdown that releases the listener and leaves the connections.
pool_shutdown_listener(p) ==
    LET q == pool_unregister([p EXCEPT !.exc = "none"], LISTENER)
    IN  IF q.exc # "none" THEN q ELSE sock_close(q, LISTENER)

\* LangServPool.shutdown
pool_shutdown(p) ==
    LET q == pool_unregister([p EXCEPT !.exc = "none"], LISTENER)
    IN  IF q.exc # "none" THEN q
        ELSE close_all(sock_close(q, LISTENER), DOMAIN q.lang_servs)

\* The wake drain starts the pool: LangServPool.startup(ctx).
pool_startup ==
    /\ ppc = "new"
    /\ pctx' = "live"
    /\ pool' = [pool EXCEPT !.sel = @ \cup {LISTENER},
                            !.tab = @ \cup {LISTENER}]
    /\ ppc' = "running"
    /\ UNCHANGED <<pshut, pevict, stopsLeft>>
    /\ UNCHANGED <<loopVars, reactorVars, th, envVars, docVars, podVars, spkVars, genVars, parVars>>

\* The connections accepted so far.
Accepted == DOMAIN pool.closes \ {LISTENER}

\* event() for the listener: handle_conn accepts a connection and makes its
\* LangServ, which registers the connection.
handle_conn ==
    /\ ppc = "running"
    /\ LISTENER \in pool.sel
    /\ Cardinality(Accepted) < MaxConns
    /\ LET conn == Cardinality(Accepted) + 1
           p == [pool EXCEPT !.closes = Put(@, conn, 0), !.exc = "none"]
           q == pool_register(p, conn)
       IN  IF q.exc # "none"
           THEN pool' = q /\ ppc' = "fail"
           ELSE /\ pool' = [q EXCEPT !.lang_servs = Put(@, conn, FALSE)]
                /\ ppc' = "running"
    /\ UNCHANGED <<pctx, pshut, pevict, stopsLeft>>
    /\ UNCHANGED <<loopVars, reactorVars, th, envVars, docVars, podVars, spkVars, genVars, parVars>>

\* event() for a connection: `ls = self.lang_servs[key.fileobj]`, then
\* ls.event, which handles the bytes ("data"), closes the broken connection
\* ("eof") or raises; `if ls.closed: del self.lang_servs[key.fileobj]`.
conn_event(conn, outcome) ==
    /\ ppc = "running"
    /\ conn \in pool.sel
    /\ IF conn \notin DOMAIN pool.lang_servs
       THEN pool' = [pool EXCEPT !.exc = "KeyError"] /\ ppc' = "fail"
       ELSE IF outcome = "raise"
       THEN pool' = [pool EXCEPT !.exc = "raise"] /\ ppc' = "fail"
       ELSE IF outcome = "data"
       THEN pool' = [pool EXCEPT !.exc = "none"] /\ ppc' = "running"
       ELSE LET q == ls_close([pool EXCEPT !.exc = "none"], conn) IN
            IF q.exc # "none"
            THEN pool' = q /\ ppc' = "fail"
            ELSE /\ pool' = [q EXCEPT !.lang_servs = Drop(@, conn)]
                 /\ ppc' = "running"
    /\ UNCHANGED <<pctx, pshut, pevict, stopsLeft>>
    /\ UNCHANGED <<loopVars, reactorVars, th, envVars, docVars, podVars, spkVars, genVars, parVars>>

\* evict_on_fail after a raising event(): shutdown(), its exception
\* swallowed, then evict_consumer.
pool_fail ==
    /\ ppc = "fail"
    /\ pool' = pool_shutdown(pool)
    /\ pshut' = pshut + 1
    /\ ppc' = "evict"
    /\ UNCHANGED <<pctx, pevict, stopsLeft>>
    /\ UNCHANGED <<loopVars, reactorVars, th, envVars, docVars, podVars, spkVars, genVars, parVars>>

\* The wake drain pops the pool from the to-stop queue: shutdown(), its
\* exception swallowed, then evict_consumer.  The pool is there once for
\* each shut_me_down() made before its eviction.
pool_stop ==
    /\ ppc \in {"running", "evicted"}
    /\ stopsLeft > 0
    /\ stopsLeft' = stopsLeft - 1
    /\ pool' = pool_shutdown(pool)
    /\ pshut' = pshut + 1
    /\ ppc' = "evict"
    /\ UNCHANGED <<pctx, pevict>>
    /\ UNCHANGED <<loopVars, reactorVars, th, envVars, docVars, podVars, spkVars, genVars, parVars>>

\* evict_consumer: KeyError when the pool has no context any more, else the
\* context is marked evicted and the first file object the pool still has
\* in loop.consumers meets self.select.unregister, an AttributeError.
pool_evict ==
    /\ ppc = "evict"
    /\ IF pctx # "live"
       THEN pevict' = "KeyError" /\ ppc' = "dead" /\ UNCHANGED pctx
       ELSE /\ pctx' = "evicted"
            /\ IF pool.tab # {}
               THEN pevict' = "AttributeError" /\ ppc' = "dead"
               ELSE pevict' = "ok" /\ ppc' = "evicted"
    /\ UNCHANGED <<pool, pshut, stopsLeft>>
    /\ UNCHANGED <<loopVars, reactorVars, th, envVars, docVars, podVars, spkVars, genVars, parVars>>

InitPool ==
    /\ LoopIdle
    /\ DocIdle
    /\ PodIdle
    /\ SpeakIdle
    /\ GenIdle
    /\ ParserIdle
    /\ pool = NewPool
    /\ pctx = "none"
    /\ ppc = "new"
    /\ pshut = 0
    /\ pevict = "none"
    /\ stopsLeft \in 0..MaxStops

NextPool ==
    \/ pool_startup
    \/ handle_conn
    \/ \E conn \in 1..MaxConns, outcome \in {"data", "eof", "raise"} :
          conn_event(conn, outcome)
    \/ pool_fail
    \/ pool_stop
    \/ pool_evict

SpecPool == InitPool /\ [][NextPool]_vars

\* ------------------------------------------------------------- properties
\* Positions of the log at which a callback of a consumer was invoked.
Calls(kind, c) == {i \in DOMAIN log : log[i][1] = kind /\ log[i][2] = c}

\* Consumers that are started and not evicted: they hold a context.
Live == Range(contexts)

\* The reactor is between two callbacks' handling: it is not in the middle
\* of evict_on_fail or evict_consumer for consumer c.
Handling(c) == rcons = c /\ rpc \in {"fail", "evict", "evict_queues"}

\* Every thread is out of its call, nothing is queued or buffered and the
\* reactor is back in select().
Drained ==
    /\ \A t \in Threads : th[t].pc = "idle"
    /\ startables = <<>> /\ stoppables = <<>> /\ notifiables = <<>>
    /\ ctrlBuf = <<>>
    /\ rpc = "select"

\* C1: when a close() call has returned, every consumer that was started
\* and not yet evicted when the teardown began (the consumers _close
\* iterates over) has had shutdown() called exactly once.
C1_CloseAfterShutdowns ==
    closeDone =>
        \A i \in DOMAIN rclose : Cardinality(Calls("shutdown", rclose[i])) = 1

\* C2: once a consumer's event() has raised and the failure has been
\* handled, no later event() of that consumer is in the log, and no
\* descriptor of that consumer is left in the descriptor table or in the
\* selector.
C2_FailedEventEvicted ==
    \A c \in Consumers :
        \A i \in Calls("event", c) :
            log[i][4] = "raise" =>
                /\ \A j \in Calls("event", c) : j <= i
                /\ ~Handling(c) =>
                      /\ FdsOf(c) = {}
                      /\ selector \cap FdsOf(c) = {}

\* C3: the run loop is never ended by an exception raised while the
\* failure of a startup(), event() or notify() callback is being handled.
C3_FailureKeepsLoopRunning == loopExc[2] # "evict_on_fail"

\* C4: no two consumers made for the same singleton name are live at the
\* same time; and once the queues have drained, a live consumer is the one
\* the singleton registry records under its name.
C4_OneLivePerName ==
    /\ \A c, d \in Live : c # d => madeFor[c] # madeFor[d]
    /\ Drained =>
          \A c \in Live : /\ madeFor[c] \in DOMAIN singletons
                           /\ singletons[madeFor[c]] = c

\* C5: a singleton() call that finds the name registered to a consumer the
\* reactor has not started yet does not raise.
C5_ReplaceBeforeStart ==
    [][\A t \in Threads :
          (th[t].pc = "sg_ctx" /\ th[t].cons \notin DOMAIN evicted)
              => th'[t].res # "KeyError"]_vars

\* C6: the messages of one consumer reach notify() in the order in which
\* notify_me() queued them (messages are numbered in that order).
C6_NotifyInQueueOrder ==
    \A i, j \in DOMAIN log :
        (i < j /\ log[i][1] = "notify" /\ log[j][1] = "notify"
               /\ log[i][2] = log[j][2])
            => log[i][3] < log[j][3]

\* C7: the quit command of a close() call that waits in join() is not
\* lost: it is still in the control channel, or the run loop has ended.
C7_QuitNotLost ==
    \A t \in Threads :
        th[t].pc = "join" =>
            \/ \E i \in DOMAIN ctrlBuf : ctrlBuf[i] = "quit"
            \/ loopExc # NoExc

\* C8: no notify() of a consumer is invoked after a shutdown() of that
\* consumer.
C8_NoNotifyAfterShutdown ==
    \A c \in Consumers :
        \A i \in Calls("shutdown", c), j \in Calls("notify", c) : j < i

\* C9: a descriptor is a key of the descriptor table if and only if it is
\* registered with the selector and the consumer that registered it is
\* started and not evicted.
C9_TableIffRegisteredAndLive ==
    \A fd \in Fds :
        /\ fd \in DOMAIN consumers =>
              /\ fd \in selector
              /\ consumers[fd] \in Live
              /\ ~evicted[consumers[fd]]
        /\ fd \in selector => fd \in DOMAIN consumers

\* C10: a notify_me() or shut_me_down() call that begins after a close()
\* has returned queues nothing (and so writes no wake) and does not raise.
C10_NothingQueuedAfterClose ==
    \A t \in Threads :
        (th[t].late /\ th[t].op \in {"notify_me", "shut_me_down"})
            => th[t].res \in {"none", "noop", "dropped"}

\* C11: a singleton() call that begins after a close() has returned queues
\* nothing: the object is neither put on the to-start queue nor recorded in
\* the registry and no wake is written; the call returns the object.
C11_SingletonDroppedAfterClose ==
    \A t \in Threads :
        (th[t].late /\ th[t].op = "singleton" /\ th[t].pc = "idle")
            => th[t].res = "dropped"

\* C12: over any interleaving, the shutdown() of a consumer is invoked at
\* most once.
C12_ShutdownAtMostOnce ==
    \A c \in Consumers : Cardinality(Calls("shutdown", c)) <= 1

\* C13: the startup() of a consumer is invoked at most once, and every
\* event() and notify() of a consumer comes after its startup().
C13_StartupOnceAndFirst ==
    \A c \in Consumers :
        /\ Cardinality(Calls("startup", c)) <= 1
        /\ \A i \in Calls("event", c) \cup Calls("notify", c) :
               \E j \in Calls("startup", c) : j < i

\* A consumer was started and has since had an event() and a notify().
C13_Witness ==
    \E c \in Consumers :
        /\ Calls("startup", c) # {}
        /\ Calls("event", c) # {}
        /\ Calls("notify", c) # {}

\* What the methods of an evicted LoopContext must leave alone: the
\* selector, the descriptor table, the three queues, the control channel.
CtxTouches == <<selector, consumers, startables, stoppables, notifiables,
                ctrlBuf>>

\* C14: the methods of an evicted LoopContext return without raising and
\* without effect.  A notify_me() or shut_me_down() call goes past the
\* evicted test only on a context that is not evicted; a call that returns
\* at the test, directly or inside singleton(), changes nothing; and a
\* callback of an evicted consumer, whatever register, modify or
\* unregister call it makes, gets no KeyError from it and leaves the
\* selector, the descriptor table, the other queues and the control
\* channel as they are (the reactor only pops the callback's queue entry).
C14_EvictedContextInert ==
    [][/\ \A t \in Threads :
             /\ (th[t].pc \in {"idle", "sg_shut"}
                    /\ th'[t].pc \in {"nm_lock", "sd_lock"})
                   => ~evicted[th'[t].cons]
             /\ (th'[t] # th[t] /\ th'[t].res = "noop")
                   => UNCHANGED CtxTouches
             /\ (th[t].pc = "sg_shut" /\ th'[t] # th[t]
                    /\ evicted[th[t].cons])
                   => th'[t].pc = "sg_add" /\ UNCHANGED CtxTouches
       /\ (log' # log /\ Last(log')[2] \in DOMAIN evicted
             /\ evicted[Last(log')[2]])
            => /\ Last(log')[4] # "KeyError"
               /\ UNCHANGED <<selector, consumers, startables, ctrlBuf>>
               /\ stoppables' \in {stoppables, Front(stoppables)}
               /\ notifiables' \in {notifiables, Front(notifiables)}]_vars

\* A callback of a consumer has run after that consumer's eviction (a
\* notify() after its shutdown()), and a notify_me() call has returned at
\* the evicted test.
C14_Witness ==
    /\ \E c \in Consumers :
          \E i \in Calls("shutdown", c), j \in Calls("notify", c) :
              i < j /\ log[j][4] = "ok"
    /\ \E t \in Threads : th[t].op = "notify_me" /\ th[t].res = "noop"

\* C15: evict_consumer called for a consumer that is already evicted raises
\* nothing and changes no table and no queue.
C15_EvictionIdempotent ==
    [][(rpc = "evict" /\ rpc' # "evict"
            /\ rcons \in DOMAIN evicted /\ evicted[rcons])
          => /\ loopExc' = loopExc
             /\ closeExc' = closeExc
             /\ UNCHANGED <<selector, consumers, singletons, contexts,
                            evicted, startables, stoppables, notifiables>>]_vars

\* C16: when a shutdown() has raised, in the failure wrapper or in the
\* to-stop loop, the exception is swallowed and the eviction that follows
\* goes through: no exception ends the run loop, and when evict_consumer
\* returns the consumer is in no table and in no queue.
C16_ShutdownErrorSwallowed ==
    [][(rerr /\ rpc \in {"evict", "evict_queues"} /\ rpc' # rpc)
          => /\ loopExc' = loopExc
             /\ rpc' \in {"evict_queues", rret}
             /\ rpc' = rret =>
                   /\ rcons \notin Range(contexts')
                   /\ evicted'[rcons]
                   /\ \A fd \in DOMAIN consumers' : consumers'[fd] # rcons
                   /\ \A n \in DOMAIN singletons' : singletons'[n] # rcons
                   /\ rcons \notin Range(startables')
                   /\ rcons \notin Range(stoppables')
                   /\ \A i \in DOMAIN notifiables' :
                          notifiables'[i][1] # rcons]_vars

\* C17: no command line of a received message is discarded: a line that
\* waits behind the one being handled leaves the reactor's hands only by
\* being dispatched next, a wake by taking the lock for the drain, a quit
\* by ending the run loop (steps in which an exception ends the run loop
\* are left aside).
C17_EveryLineDispatched ==
    [][(rlines # <<>> /\ rlines' # rlines /\ loopExc' = loopExc)
          => /\ rlines' = Tail(rlines)
             /\ rpc' = IF Head(rlines) = "wake" THEN "wake" ELSE "finally"]_vars

\* C18: when a control line that is neither quit nor wake has made the
\* reactor raise and the reactor thread is over, the teardown has
\* completed: every consumer that was still started has had its shutdown()
\* invoked, the control sockets are out of the selector, no exception
\* escaped the teardown and the closed flag is set.
C18_TeardownAfterUnknownLine ==
    (rpc = "dead" /\ loopExc[1] = "ValueError") =>
        /\ \A i \in DOMAIN rclose : Calls("shutdown", rclose[i]) # {}
        /\ selector = {}
        /\ closeExc = NoExc
        /\ closed

\* C19: when the run loop has been ended by a quit command and the reactor
\* thread is over, the teardown has completed: every consumer that was
\* still started has had its shutdown() invoked, the control sockets are
\* out of the selector, no exception escaped and the closed flag is set.
C19_TeardownAfterQuit ==
    (rpc = "dead" /\ loopExc[2] = "quit") =>
        /\ \A i \in DOMAIN rclose : Calls("shutdown", rclose[i]) # {}
        /\ selector = {}
        /\ closeExc = NoExc
        /\ closed

\* C20: every callback is invoked by a step of the reactor thread, one
\* callback per step: a step that invokes a callback is no step of a
\* calling thread, and the reactor is then inside run_one.
C20_CallbacksOnReactorOnly ==
    [][log' # log
          => /\ th' = th
             /\ Len(log') = Len(log) + 1
             /\ rpc \in {"run_one", "stops", "starts", "notifies", "fail"}]_vars

\* Callbacks have run while a calling thread is in the middle of a call.
C20_Witness ==
    /\ Len(log) >= 2
    /\ \E t \in Threads : th[t].pc \in {"nm_lock", "sd_lock", "sg_add"}

\* C21: a close() call that begins after an earlier close() has returned
\* returns at once: it writes no quit and does not wait or raise.
C21_SecondCloseReturns ==
    \A t \in Threads :
        (th[t].late /\ th[t].op = "close")
            => th[t].pc = "idle" /\ th[t].res = "noop"

\* C22: when event_loop has been declared again and the new EventLoop is
\* constructed, the close() of the previous loop has run: its reactor
\* thread is over and every consumer that was attached to it (started and
\* not evicted when its teardown began) has had its shutdown() invoked.
C22_ReloadShutsConsumersDown ==
    \A t \in Threads :
        (th[t].op = "reload" /\ th[t].res = "reloaded")
            => /\ rpc = "dead"
               /\ \A i \in DOMAIN rclose :
                      Calls("shutdown", rclose[i]) # {}

\* C27: when evict_consumer returns, the consumer it was called for is in
\* no structure: not in the context table, the singleton registry or the
\* descriptor table, and in no entry of the three queues.
C27_EvictedEverywhere ==
    [][(rpc = "evict_queues" /\ rpc' = rret)
          => /\ rcons \notin Range(contexts')
             /\ \A n \in DOMAIN singletons' : singletons'[n] # rcons
             /\ \A fd \in DOMAIN consumers' : consumers'[fd] # rcons
             /\ \A i \in DOMAIN startables' : startables'[i] # rcons
             /\ \A i \in DOMAIN stoppables' : stoppables'[i] # rcons
             /\ \A i \in DOMAIN notifiables' :
                    notifiables'[i][1] # rcons]_vars

\* C28: eviction is all-or-nothing: the descriptor table never maps a
\* descriptor to a consumer whose context is marked evicted or is gone
\* from the context table.
C28_EvictionAllOrNothing ==
    \A c \in DOMAIN evicted :
        (evicted[c] \/ c \notin Range(contexts)) => FdsOf(c) = {}

\* C29: the reactor invokes no callback for a queue entry whose consumer
\* the singleton registry does not hold when the entry is processed.
C29_UnregisteredEntrySkipped ==
    [][(rpc \in {"stops", "starts", "notifies"} /\ log' # log)
          => \E n \in DOMAIN singletons :
                 singletons[n] = Last(log')[2]]_vars

\* C30: the entries of a queue are processed in the order they were
\* appended: consumers are started in the order singleton() queued them
\* (consumers are numbered in that order).
C30_DrainInQueueOrder ==
    \A i, j \in DOMAIN log :
        (i < j /\ log[i][1] = "startup" /\ log[j][1] = "startup")
            => log[i][2] < log[j][2]

\* ---------------------------------------------------------- Document claims
\* Line l of the text exists: at least l newlines occur in it.
HasLine(text, l) == Cardinality({j \in 1..Len(text) : text[j] = "\n"}) >= l

\* The offset of the first character of line l, for a line that exists.
LineStart(text, l) ==
    IF l = 0
    THEN 0
    ELSE CHOOSE i \in 1..Len(text) :
             /\ text[i] = "\n"
             /\ Cardinality({j \in 1..i : text[j] = "\n"}) = l

Offset(text, pos) == LineStart(text, pos.line) + pos.character

\* The characters of the text before offset n, and those from n on.
Before(text, n) ==
    [i \in 1..(IF n < Len(text) THEN n ELSE Len(text)) |-> text[i]]

After(text, n) ==
    [i \in 1..(IF n < Len(text) THEN Len(text) - n ELSE 0) |-> text[n + i]]

Replaced(text, range, new) ==
    Before(text, Offset(text, range.start)) \o new
        \o After(text, Offset(text, range.end))

\* C23: a did_change whose change has a range with both positions on lines
\* the text has leaves the text before the start offset, then the change's
\* text, then the text from the end offset on, each offset being the start
\* of the position's line plus its character; a did_change whose change
\* has neither range nor rangeLength leaves the change's text; every other
\* did_change raises ValueError and leaves the text as it was.
C23_DidChangeReplacesRange ==
    docRes # "none" =>
        IF docChange.range = <<>>
        THEN IF docChange.rangeLength = <<>>
             THEN docRes = "ok" /\ docText = docChange.text
             ELSE docRes = "ValueError" /\ docText = docOld
        ELSE IF /\ HasLine(docOld, docChange.range[1].start.line)
                /\ HasLine(docOld, docChange.range[1].end.line)
             THEN /\ docRes = "ok"
                  /\ docText = Replaced(docOld, docChange.range[1],
                                        docChange.text)
             ELSE docRes = "ValueError" /\ docText = docOld

\* A ranged change whose positions are past the first line was applied.
C23_Witness ==
    /\ docRes = "ok"
    /\ docChange.range # <<>>
    /\ docChange.range[1].start.line = 1
    /\ docChange.range[1].end.line = 2
    /\ docChange.text # <<>>
    /\ docText # docOld

\* C23 as stated: every ranged did_change replaces the text between the
\* two positions, and every did_change without a range replaces the whole
\* text.
C23_EveryChangeApplies ==
    docRes # "none" =>
        IF docChange.range = <<>>
        THEN docText = docChange.text
        ELSE /\ docRes = "ok"
             /\ docText = Replaced(docOld, docChange.range[1],
                                   docChange.text)

\* --------------------------------------------------------------- POD claims
\* C24: as long as no attribute has been assigned, the objects built from
\* the same field values by keyword arguments, from a dictionary (nested
\* POD fields given as dictionaries or as objects) and by the copy
\* constructor all compare equal to one another.
C24_ConstructorsAgree ==
    ~podAssigned =>
        \A i, j \in DOMAIN podRoots :
            pod_eq(podHeap, podRoots[i].addr, podRoots[j].addr)

\* A Bar with both nested fields was built by keyword arguments, from a
\* dictionary and by copy, the nested fields once given as objects.
C24_Witness ==
    /\ ~podAssigned
    /\ podFields.cls = "Bar"
    /\ "opt" \in DOMAIN podFields.fields
    /\ {podRoots[i].how : i \in DOMAIN podRoots} = {"kw", "dict", "copy"}
    /\ Len(podHeap) = 11

\* An object with every nested POD replaced by its own content.
RECURSIVE Deep(_, _)
Deep(h, addr) ==
    [cls   |-> h[addr].cls,
     attrs |-> [attr \in DOMAIN h[addr].attrs |->
                   IF h[addr].attrs[attr][1] = "ref"
                   THEN <<"obj", Deep(h, h[addr].attrs[attr][2])>>
                   ELSE h[addr].attrs[attr]]]

\* C25: an assignment to an attribute of an object that was copied, or of
\* a POD nested in it, leaves the copy and its nested PODs as they were,
\* and if the two compared equal and the value assigned differs from the
\* attribute's old value they no longer compare equal.
C25_CopyIndependent ==
    [][(podLast'.op = "assign" /\ podOpsLeft' # podOpsLeft) =>
        \A i \in DOMAIN podRoots :
            (/\ podRoots[i].how = "copy"
             /\ podLast'.obj \in Reach(podHeap, podRoots[i].src)) =>
                /\ Deep(podHeap', podRoots[i].addr)
                       = Deep(podHeap, podRoots[i].addr)
                /\ (/\ pod_eq(podHeap, podRoots[i].src, podRoots[i].addr)
                    /\ ~value_eq(podHeap,
                                 getattr(podHeap, podLast'.obj,
                                         podLast'.attr),
                                 podLast'.value))
                       => ~pod_eq(podHeap', podRoots[i].src,
                                  podRoots[i].addr)]_vars

\* An attribute of a POD nested in a copied object was assigned and the
\* object and its copy compare unequal.
C25_Witness ==
    /\ podLast.op = "assign"
    /\ \E i \in DOMAIN podRoots :
           /\ podRoots[i].how = "copy"
           /\ podLast.obj \in Reach(podHeap, podRoots[i].src)
           /\ podLast.obj # podRoots[i].src
           /\ ~pod_eq(podHeap, podRoots[i].src, podRoots[i].addr)

\* -------------------------------------------------------- Speakifier claims
\* The symbols generated so far with a pronunciation, and the kinds under
\* which a symbol was generated with it.
SymbolsOf(speakable) == {g[2] : g \in {x \in spkGen : x[1] = speakable}}

KindsOf(speakable, symbol) ==
    {g[3] : g \in {x \in spkGen : x[1] = speakable /\ x[2] = symbol}}

\* C26: the list get_talon_list returns has one entry for each
\* pronunciation generated; the entry is the symbol without the prefix when
\* one symbol only was generated with that pronunciation and it starts
\* with the prefix, and else the JSON object of the prefix and the results,
\* which hold every symbol generated with that pronunciation, each with
\* the lowest kind under which it was.
C26_TalonList ==
    spkListed =>
        /\ DOMAIN spkOut = {g[1] : g \in spkGen}
        /\ \A speakable \in DOMAIN spkOut :
               LET symbols == SymbolsOf(speakable)
                   only    == CHOOSE x \in symbols : TRUE
                   entry   == spkOut[speakable]
               IN  IF /\ Cardinality(symbols) = 1
                      /\ startswith(only, spkPrefix)
                   THEN /\ entry[1] = "str"
                        /\ spkPrefix \o entry[2] = only
                   ELSE /\ entry[1] = "json"
                        /\ entry[2].prefix = spkPrefix
                        /\ DOMAIN entry[2].results = symbols
                        /\ \A symbol \in symbols :
                               entry[2].results[symbol][1]
                                   = Min(KindsOf(speakable, symbol))

\* The list has a plain entry, an entry of two symbols and an entry of a
\* symbol generated under two kinds with the same pronunciation.
C26_Witness ==
    /\ spkListed
    /\ \E speakable \in DOMAIN spkOut : spkOut[speakable][1] = "str"
    /\ \E speakable \in DOMAIN spkOut :
           /\ spkOut[speakable][1] = "json"
           /\ Cardinality(SymbolsOf(speakable)) = 2
           /\ \E symbol \in SymbolsOf(speakable) :
                  Cardinality(KindsOf(speakable, symbol)) > 1

\* ---------------------------------------------------------- liveness claims
\* The run loop is running: the reactor is not in the finally clause of
\* run() and has not ended.
Running == rpc \notin {"finally", "_close", "dead"} /\ rret # "_close"

\* Some thread has called or is calling close().
CloseCalled == closeDone \/ \E t \in Threads : th[t].op = "close"

\* C31: when a stop request of a started, non-evicted consumer is in the
\* to-stop queue while the run loop is running, then later, unless close()
\* is called, the consumer's shutdown() has been called, its context is
\* evicted, none of its entries is left in a queue or in the registry, and
\* the run loop is running.
C31_StopRequestServed ==
    \A c \in Consumers :
        (/\ c \in Range(stoppables)
         /\ c \in Live
         /\ Running)
        ~> (\/ CloseCalled
            \/ /\ Calls("shutdown", c) # {}
               /\ evicted[c]
               /\ c \notin Range(stoppables) \cup Range(startables)
               /\ \A i \in DOMAIN notifiables : notifiables[i][1] # c
               /\ \A n \in DOMAIN singletons : singletons[n] # c
               /\ ~Handling(c)
               /\ Running)

\* A request is in one of the pending queues.
Queued == startables # <<>> \/ stoppables # <<>> \/ notifiables # <<>>

\* A wake command is on its way to the drain: unread on the control
\* channel, or read and being handled.
WakePending ==
    \/ "wake" \in Range(ctrlBuf)
    \/ rpc \in {"wake", "stops", "starts", "notifies"}
    \/ rret \in {"stops", "starts", "notifies"}

\* C32: a consumer in the to-start queue has later had startup() called,
\* with a context made for it, unless close() is called; and unless
\* close() is called, whenever a request is in a pending queue a wake
\* command is unread on the control channel or being handled.
C32_EnqueuedIsStarted ==
    /\ \A c \in Consumers :
           (c \in Range(startables))
           ~> (CloseCalled
               \/ (Calls("startup", c) # {} /\ c \in DOMAIN evicted))
    /\ [](Queued => (WakePending \/ CloseCalled))

\* A step in which thread t reads or writes a pending queue, the singleton
\* registry or the context table.
Shared(t) ==
    \/ notify_me_locked(t)
    \/ shut_me_down_locked(t)
    \/ \E n \in Names : singleton_check(t, n)
    \/ singleton_pop(t)
    \/ singleton_ctx(t)
    \/ singleton_add(t)
    \/ close_send(t)

\* C33: every step in which a non-reactor thread reads or writes a pending
\* queue, the singleton registry or the context table is taken under the
\* shared lock, so never while the reactor holds it for the wake drain.
C33_SharedUnderLock ==
    [][\A t \in Threads : Shared(t) => lock = "free"]_vars

\* Consumer c's callback asked for its own shutdown during a drain.
AskedStop(c) ==
    \E i \in DOMAIN log : log[i] = <<"shut_me_down", c, 0, "queued">>

\* C34 as stated: when the reactor ends a wake drain and releases the lock,
\* the to-stop, to-start and to-notify queues are all empty.
C34_QueuesEmptyAtRelease ==
    [][wake_done => /\ stoppables' = <<>>
                    /\ startables' = <<>>
                    /\ notifiables' = <<>>]_vars

\* C34 amended: when the reactor ends a wake drain and releases the lock,
\* the to-start and to-notify queues are empty, and the to-stop queue holds
\* only consumers whose callback asked for shutdown during a drain, with a
\* wake command unread on the control channel.
C34_QueuesAtRelease ==
    [][wake_done => /\ startables' = <<>>
                    /\ notifiables' = <<>>
                    /\ \A c \in Range(stoppables') :
                          AskedStop(c) /\ "wake" \in Range(ctrlBuf')]_vars

\* A drain has just ended with the stop request of a startup() or notify()
\* callback left in the to-stop queue.
C34_Witness ==
    /\ rpc = "run_one"
    /\ lock = "free"
    /\ log # <<>>
    /\ Last(log)[1] = "shut_me_down"
    /\ Last(log)[4] = "queued"
    /\ stoppables = <<Last(log)[2]>>
    /\ startables = <<>>
    /\ notifiables = <<>>
    /\ \A t \in Threads : th[t].pc = "idle" /\ th[t].op # "shut_me_down"

\* Messages that a callback of consumer c passed to notify_me() during a
\* drain.
AskedNotify(c) ==
    {log[i][3] : i \in {j \in DOMAIN log :
                           /\ log[j][1] = "notify_me"
                           /\ log[j][2] = c
                           /\ log[j][4] = "queued"}}

\* C35: the reactor that holds the lock for a drain releases it later,
\* whatever requests the callbacks make on their own context; and a request
\* that a callback queued is served later, unless close() is called: the
\* consumer's shutdown() has been called and its context evicted, or its
\* notify() has been called with the message or the consumer evicted (an
\* eviction purges the consumer's messages).
C35_CallbackRequests ==
    /\ (lock = "reactor") ~> (lock = "free")
    /\ \A c \in Consumers :
           (AskedStop(c) /\ c \in Range(stoppables))
           ~> (CloseCalled \/ (Calls("shutdown", c) # {} /\ evicted[c]))
    /\ \A c \in Consumers, m \in 1..DrainOps :
           (m \in AskedNotify(c) /\ <<c, m>> \in Range(notifiables))
           ~> (CloseCalled
               \/ (c \in DOMAIN evicted /\ evicted[c])
               \/ \E i \in Calls("notify", c) : log[i][3] = m)

\* Generators of name n whose status is one of sts.
GensAt(n, sts) == {g \in DOMAIN gens : gens[g].name = n /\ gens[g].status \in sts}

\* C36 as stated: per name at most one generator is past its startup with
\* its cleanup not run to completion (it stands at its first yield, or at
\* a later one), and no generator's cleanup is run twice.
C36_OneGeneratorPerName ==
    /\ \A n \in 1..NumGenNames :
          Cardinality(GensAt(n, {"yield1", "yield2"})) <= 1
    /\ \A g \in DOMAIN gens : gens[g].resumed <= 1

\* C36 amended: per name at most one generator stands at its first yield,
\* and it is the one the registry holds or the call in progress is about to
\* store; no generator is resumed twice; a generator that was resumed has
\* run its cleanup to completion unless it raised or had a second yield,
\* which was logged and leaves it standing there.
C36_OneStartedPerName ==
    /\ \A n \in 1..NumGenNames :
          /\ Cardinality(GensAt(n, {"yield1"})) <= 1
          /\ \A g \in GensAt(n, {"yield1"}) :
                \/ n \in DOMAIN modSingletons /\ modSingletons[n] = g
                \/ gpc = "store" /\ gname = n /\ g = Len(gens)
    /\ \A g \in DOMAIN gens :
          /\ gens[g].resumed <= 1
          /\ gens[g].resumed = 1 =>
                gens[g].status = second_next(gens[g])
          /\ gens[g].status = "yield2" => gens[g].yields >= 2

\* A name has been declared again: its old generator has run its cleanup
\* to the end and the new one stands at its first yield, in the registry.
C36_Witness ==
    /\ gpc = "idle"
    /\ \E n \in DOMAIN modSingletons :
          /\ gens[modSingletons[n]].status = "yield1"
          /\ \E g \in GensAt(n, {"done"}) :
                g < modSingletons[n] /\ gens[g].resumed = 1

\* The whole stream has been passed to feed().
AllFed == pkind # "none" /\ pfed = Len(pstream)

\* C37: once a stream of complete messages has been fed, in whatever
\* pieces, the parser has invoked the callback with the same messages,
\* bodies and headers, in the same order, as a parser fed the whole stream
\* in one call, holds the same leftover buffer and raised the same.
C37_ChunkingInsensitive ==
    (AllFed /\ pkind = "messages") =>
        LET whole == feed(NewParser, pstream) IN
        /\ parser.calls = whole.calls
        /\ parser.buf = whole.buf
        /\ parser.exc = whole.exc

\* C38: once a complete header block without Content-Length has been fed,
\* feed() has raised the ValueError that says so and the callback has not
\* been invoked.
C38_MissingContentLength ==
    (AllFed /\ pkind = "headless") =>
        /\ parser.exc = "ValueError: message missing Content-Length"
        /\ parser.calls = <<>>

\* C39: once shutdown() has run on the started pool, none of the pool's
\* file objects is in the selector or in the descriptor table, close() has
\* been called exactly once on every connection accepted, and the eviction
\* that follows meets no file object to unregister.
C39_ShutdownReleases ==
    (pshut > 0 /\ pctx # "none") =>
        /\ pool.sel = {}
        /\ pool.tab = {}
        /\ \A conn \in Accepted : pool.closes[conn] = 1
        /\ pevict # "AttributeError"

\* shutdown() has run on a pool that held open connections and one that
\* had been closed before, and the eviction has gone through.
C39_Witness ==
    /\ pshut = 1
    /\ pevict = "ok"
    /\ Cardinality(Accepted) = MaxConns
    /\ Cardinality(DOMAIN pool.lang_servs) = 2
====
